---------------------------- MODULE Spec2Model ----------------------------
(***************************************************************************)
(* Model of the pillbox host: the TCP session of SimplePillboxCommunicator *)
(* (src/simple_host_sender.py), its receive loop, the hand-off queue that  *)
(* SystemStatusWidget.process_message_queue drains (src/simple_main.py),   *)
(* and the correlated SET_SCHEDULE command.                                *)
(*                                                                         *)
(* Threads: one foreground caller (the GUI thread: connect, disconnect,    *)
(* send_schedule_config, _send_json, process_message_queue run one at a    *)
(* time on it) and one _listen_loop thread per threading.Thread started by *)
(* start_listening.  A blocking call (recv, join) is two steps: entering   *)
(* it and returning from it.                                               *)
(***************************************************************************)
EXTENDS Integers, Sequences, FiniteSets, TLC

(***************************************************************************)
(* Bounds of the model.                                                    *)
(***************************************************************************)
MaxOps == 3        \* calls the foreground thread makes on the session
MaxDevSends == 2   \* lines the device pushes on its own
MaxCmdPushes == 1  \* of them, while commands are exchanged (SpecCmd)
MaxRetries == 3    \* largest max_retries given to discover_with_retry
MaxSweeps == 2     \* calls of check_missed_medications in one run
MaxSensors == 2    \* calls of process_sensor_data in one run
MaxDays == 2       \* calendar days a run lasts
MaxTimes == 3      \* schedule_times of a schedule given to a function

(***************************************************************************)
(* Socket timeouts and the join timeout of the program, in seconds.        *)
(***************************************************************************)
ConnectTimeout == 5
PollTimeout == 1
JoinTimeout == 2
CmdTimeout == 5

\* response.get('port', 8080) of ESP32Discovery.discover
DefaultPort == 8080

\* '192.168.4.2' of _load_from_config, as a host number
DefaultIp == 4

\* get_recent_records(limit=100) of _has_recent_record
RecentLimit == 100

\* get_recent_records(limit=500) of get_medication_adherence_rate
RateLimit == 500

VARIABLES
    \* fields of SimplePillboxCommunicator
    socket,          \* self.socket: 0 is None, else a socket id
    is_connected,    \* self.is_connected
    is_listening,    \* self.is_listening
    listen_thread,   \* self.listen_thread: 0 is None, else a thread id
    recv_buffer,     \* self.recv_buffer: the decoded text not yet framed
    welcome_info,    \* self.welcome_info (NoMsg is None)
    device_boxes,    \* self.device_boxes
    last_status,     \* self.last_status: compartment id -> last status
    message_queue,   \* self.message_queue (queue.Queue)
    \* operating system and network
    socks,           \* socket id -> [st, peer, rx, tmo]
    nsock,           \* socket objects created so far
    net,             \* bytes the device wrote that have not reached rx yet
    \* the device
    dev_inbox,       \* commands the device received and has not answered
    dev_sent,        \* lines the device pushed on its own
    \* the listener threads
    th,              \* thread id -> [pc, sock, tmo]
    nthreads,
    \* the foreground thread
    cpc,             \* its position
    cloc,            \* locals of the running call
    nops,            \* calls made so far
    ncmd,            \* commands written so far (numbers them)
    last_call,       \* the last call that returned: [op, ret]
    \* history (observation only: no action reads it in a guard)
    dev_lines,       \* every line the device wrote, in order
    disp_log,        \* every line handed to _process_received_data
    put_log,         \* every item put on message_queue
    taken_log,       \* every item process_message_queue took
    reply_seen,      \* the reply to the in-flight command reached the socket
    \* the transport
    wire_out,        \* how much of the last message socket.send took:
                     \* "none", "part" (a proper prefix) or "whole"
    \* a second thread that calls send_schedule_config
    bpc,             \* its position: "idle" or "s_wait" (in recv)
    bloc,            \* its locals: [cmd, old]
    bret,            \* the result of its last call
    \* ESP32Discovery.discover_with_retry (src/esp32_discovery.py)
    d_pc,            \* "idle", "attempt" (in discover), "sleep", "done"
    d_max,           \* max_retries
    d_attempt,       \* attempt
    d_bcasts,        \* broadcasts sent by sock.sendto
    d_sleeps,        \* time.sleep(1) calls made
    d_log,           \* what each attempt met, in order
    d_result,        \* the (ip, port) returned
    \* the constructor of SimplePillboxCommunicator and the config file
    k_pc,            \* "new", "discover" (in _auto_discover_esp32), "built"
    k_args,          \* the ip and auto_discover it was given
    self_ip,         \* self.ip: 0 is None, else a host number
    self_port,       \* self.port: 0 is None
    cfg,             \* system_config.json: [form, ip, port]
    cfg_log,         \* the accesses to it, in order
    \* MedicationRecorder and the medication_records table
    store,           \* the rows, in the order of created_at
    now,             \* datetime.now(): [day, tod], tod in minutes
    m_last,          \* "off" before the program runs, else the last step
    m_ret,           \* what the last call of the recorder returned
    m_sweeps,        \* calls of check_missed_medications so far
    m_sensors,       \* calls of process_sensor_data so far
    \* a call of a function that changes nothing
    f_call,          \* << name, arguments >>
    f_ret,           \* what it returned
    \* the callbacks of SimplePillboxCommunicator
    status_callbacks,\* self.status_callbacks
    cb_log           \* every registration of a callback and every call of
                     \* one, in order (observation only)

vars == << socket, is_connected, is_listening, listen_thread, recv_buffer,
           welcome_info, device_boxes, last_status, message_queue,
           socks, nsock, net, dev_inbox, dev_sent, th, nthreads,
           cpc, cloc, nops, ncmd, last_call,
           dev_lines, disp_log, put_log, taken_log, reply_seen,
           wire_out, bpc, bloc, bret,
           d_pc, d_max, d_attempt, d_bcasts, d_sleeps, d_log, d_result,
           k_pc, k_args, self_ip, self_port, cfg, cfg_log,
           store, now, m_last, m_ret, m_sweeps, m_sensors, f_call, f_ret,
           status_callbacks, cb_log >>

sessionVars == << socket, is_connected, is_listening, listen_thread,
                  recv_buffer, welcome_info, device_boxes, last_status,
                  message_queue >>
netVars == << socks, nsock, net >>
devVars == << dev_inbox, dev_sent >>
thVars == << th, nthreads >>
callVars == << cpc, cloc, nops, ncmd, last_call >>
histVars == << dev_lines, disp_log, put_log, taken_log, reply_seen >>
\* what the calls that do not send leave alone
parVars == << bpc, bloc, bret >>
discVars == << d_pc, d_max, d_attempt, d_bcasts, d_sleeps, d_log, d_result >>
\* the variables of the components other than the session
ctorVars == << k_pc, k_args, self_ip, self_port, cfg, cfg_log >>
medVars == << store, now, m_last, m_ret, m_sweeps, m_sensors >>
cbVars == << status_callbacks, cb_log >>
offVars == << discVars, ctorVars, medVars, f_call, f_ret, cbVars >>
extVars == << wire_out, parVars, offVars >>
\* the variables of the session and its threads
commVars == << sessionVars, netVars, devVars, thVars, callVars, histVars,
               wire_out, parVars >>
\* what the steps of a discovery leave alone
discFrame == << commVars, ctorVars, medVars, f_call, f_ret, cbVars >>

(***************************************************************************)
(* Lines on the wire.  A line is what the device prints: a JSON text (or   *)
(* garbage) and a line end.  form: "obj" a JSON object, "scalar" valid     *)
(* JSON that is no object, "bad" not JSON, "empty" nothing.  type: the     *)
(* "type" member ("" when absent).  re: the number of the command a reply  *)
(* answers (0: none).  val: the payload (boxes, box, compartment_id).      *)
(* enc: "ascii", or "utf8" when the text holds a two-byte character.       *)
(* eol: "lf" or "crlf".                                                    *)
(***************************************************************************)
Line(form, type, re, val, enc, eol) ==
    [form |-> form, type |-> type, re |-> re, val |-> val, enc |-> enc, eol |-> eol]

NoMsg == Line("none", "", 0, 0, "ascii", "lf")

KnownTypes == {"welcome", "status", "box_event", "compartment_status"}

Reply(n) == Line("obj", "", n, 0, "ascii", "lf")

\* Bytes: <<class, line, position>>.  Class "a" is a one-byte character,
\* "lead"/"cont" the two bytes of one character, "cr"/"nl" the line end.
NL == << "nl", NoMsg, 0 >>
CR == << "cr", NoMsg, 0 >>

Body(l) ==
    CASE l.form = "empty" -> << >>
      [] l.enc = "utf8"   -> << <<"a", l, 1>>, <<"lead", l, 2>>, <<"cont", l, 2>> >>
      [] OTHER            -> << <<"a", l, 1>>, <<"a", l, 2>> >>

\* What the device writes for a line (println or print + "\n").
Encode(l) == Body(l) \o (IF l.eol = "crlf" THEN << CR, NL >> ELSE << NL >>)

\* The text of a line as str: one element per character.
Text(l) ==
    CASE l.form = "empty" -> << >>
      [] l.enc = "utf8"   -> << <<"a", l, 1>>, <<"u", l, 2>> >>
      [] OTHER            -> << <<"a", l, 1>>, <<"a", l, 2>> >>

(***************************************************************************)
(* bytes.decode('utf-8'): raises UnicodeDecodeError when a lead byte is    *)
(* not followed by its continuation byte or a continuation byte does not   *)
(* follow its lead byte; else one character per one-byte character and one *)
(* per lead/continuation pair.                                             *)
(***************************************************************************)
DecodeOk(bs) ==
    \A i \in 1..Len(bs) :
        /\ bs[i][1] = "lead" =>
              i < Len(bs) /\ bs[i+1][1] = "cont" /\ bs[i+1][2] = bs[i][2]
        /\ bs[i][1] = "cont" =>
              i > 1 /\ bs[i-1][1] = "lead" /\ bs[i-1][2] = bs[i][2]

RECURSIVE Decode(_)
Decode(bs) ==
    IF bs = << >> THEN << >>
    ELSE IF bs[1][1] = "lead"
         THEN << <<"u", bs[1][2], bs[1][3]>> >> \o Decode(SubSeq(bs, 3, Len(bs)))
         ELSE << bs[1] >> \o Decode(Tail(bs))

\* str.strip(): leading and trailing whitespace removed.
IsSpace(c) == c[1] \in {"cr", "nl"}

RECURSIVE LStrip(_)
LStrip(s) == IF s # << >> /\ IsSpace(s[1]) THEN LStrip(Tail(s)) ELSE s

RECURSIVE RStrip(_)
RStrip(s) ==
    IF s # << >> /\ IsSpace(s[Len(s)]) THEN RStrip(SubSeq(s, 1, Len(s) - 1)) ELSE s

Strip(s) == LStrip(RStrip(s))

\* '\n' in s, and s.split('\n', 1)
HasNL(s) == \E i \in 1..Len(s) : s[i] = NL
FirstNL(s) == CHOOSE i \in 1..Len(s) : s[i] = NL /\ \A j \in 1..(i-1) : s[j] # NL
SplitHead(s) == SubSeq(s, 1, FirstNL(s) - 1)
SplitRest(s) == SubSeq(s, FirstNL(s) + 1, Len(s))

\* json.loads(text): the line whose whole text this is, when that is JSON;
\* NoMsg stands for JSONDecodeError.
JsonLoads(s) ==
    IF /\ s # << >>
       /\ s[1][2].form \in {"obj", "scalar"}
       /\ s = Text(s[1][2])
    THEN s[1][2]
    ELSE NoMsg


(***************************************************************************)
(* State after SimplePillboxCommunicator.__init__ (with an address given). *)
(***************************************************************************)
Socks == 1..MaxOps
Threads == 1..MaxOps

NoSock == [st |-> "none", peer |-> "up", rx |-> << >>, tmo |-> 0]
NoThread == [pc |-> "off", sock |-> 0, tmo |-> 0]
NoLoc == [cmd |-> 0, old |-> 0, tmo |-> 0, meds |-> << >>]
Ret(status, why, msg) == [status |-> status, why |-> why, msg |-> msg]
NoCall == [op |-> "none", ret |-> Ret("", "", NoMsg)]

Init ==
    /\ socket = 0
    /\ is_connected = FALSE
    /\ is_listening = FALSE
    /\ listen_thread = 0
    /\ recv_buffer = << >>
    /\ welcome_info = NoMsg
    /\ device_boxes = 0
    /\ last_status = << >>
    /\ message_queue = << >>
    /\ socks = [s \in Socks |-> NoSock]
    /\ nsock = 0
    /\ net = << >>
    /\ dev_inbox = << >>
    /\ dev_sent = 0
    /\ th = [t \in Threads |-> NoThread]
    /\ nthreads = 0
    /\ cpc = "idle"
    /\ cloc = NoLoc
    /\ nops = 0
    /\ ncmd = 0
    /\ last_call = NoCall
    /\ dev_lines = << >>
    /\ disp_log = << >>
    /\ put_log = << >>
    /\ taken_log = << >>
    /\ reply_seen = FALSE
    /\ wire_out = "none"
    /\ bpc = "idle"
    /\ bloc = [cmd |-> 0, old |-> 0]
    /\ bret = NoCall.ret
    /\ d_pc = "idle"
    /\ d_max = 0
    /\ d_attempt = 0
    /\ d_bcasts = 0
    /\ d_sleeps = 0
    /\ d_log = << >>
    /\ d_result = [ip |-> 0, port |-> 0]
    /\ k_pc = "new"
    /\ k_args = [ip |-> 0, auto |-> FALSE]
    /\ self_ip = 0
    /\ self_port = 0
    /\ cfg = [form |-> "none", ip |-> 0 - 1, port |-> 0 - 1]
    /\ cfg_log = << >>
    /\ store = << >>
    /\ now = [day |-> 1, tod |-> 490]
    /\ m_last = "off"
    /\ m_ret = 0
    /\ m_sweeps = 0
    /\ m_sensors = 0
    /\ f_call = << "none" >>
    /\ f_ret = 0
    /\ status_callbacks = << >>
    /\ cb_log = << >>

(***************************************************************************)
(* The device and the network.  The device talks on the connection made    *)
(* last; what it writes travels in net and reaches the socket's receive    *)
(* buffer rx in pieces of any size.                                        *)
(***************************************************************************)
DevUp == nsock > 0 /\ socks[nsock].st = "open" /\ socks[nsock].peer = "up"

DevWrite(l) ==
    /\ net' = net \o Encode(l)
    /\ dev_lines' = Append(dev_lines, l)

\* The device pushes a line on its own (welcome, status, box_event, ...).
DevPush(l) ==
    /\ DevUp
    /\ dev_sent < MaxDevSends
    /\ dev_sent' = dev_sent + 1
    /\ DevWrite(l)
    /\ UNCHANGED << sessionVars, socks, nsock, dev_inbox, thVars, callVars,
                    disp_log, put_log, taken_log, reply_seen >>
    /\ UNCHANGED extVars

\* The device answers the oldest command it has received.
DevReply ==
    /\ DevUp
    /\ dev_inbox # << >>
    /\ dev_inbox' = Tail(dev_inbox)
    /\ DevWrite(Reply(Head(dev_inbox)))
    /\ UNCHANGED << sessionVars, socks, nsock, dev_sent, thVars, callVars,
                    disp_log, put_log, taken_log, reply_seen >>
    /\ UNCHANGED extVars

\* Whether bytes bs hold the line end of the reply to command n.
EndsReply(bs, n) ==
    \E i \in 2..Len(bs) : bs[i] = NL /\ bs[i-1][1] = "a" /\ bs[i-1][2] = Reply(n)

\* k bytes arrive at the socket.
Deliver(k) ==
    /\ nsock > 0 /\ socks[nsock].st = "open"
    /\ k \in 1..Len(net)
    /\ socks' = [socks EXCEPT ![nsock].rx = @ \o SubSeq(net, 1, k)]
    /\ net' = SubSeq(net, k + 1, Len(net))
    /\ reply_seen' = (reply_seen \/
                        (/\ cpc \in {"s_recv", "s_wait"}
                         /\ EndsReply(socks'[nsock].rx, cloc.cmd)))
    /\ UNCHANGED << sessionVars, nsock, devVars, thVars, callVars,
                    dev_lines, disp_log, put_log, taken_log >>
    /\ UNCHANGED extVars

\* The device drops the connection: reset (the host's calls on the socket
\* fail) or orderly close (the host's reads return no bytes).
PeerGone(how) ==
    /\ DevUp
    /\ socks' = [socks EXCEPT ![nsock].peer = how,
                              ![nsock].rx = IF how = "rst" THEN << >> ELSE @]
    /\ net' = IF how = "rst" THEN << >> ELSE net
    /\ dev_inbox' = << >>
    /\ UNCHANGED << sessionVars, nsock, dev_sent, thVars, callVars, histVars >>
    /\ UNCHANGED extVars


(***************************************************************************)
(* queue.Queue: put at the tail, get from the head.                        *)
(***************************************************************************)
\* (mutant) a LIFO put
QueuePutFront(q, item) == << item >> \o q

QueuePut(q, item) == Append(q, item)
QueueGet(q) == Head(q)
QueueRest(q) == Tail(q)

Item(type, val) == [type |-> type, val |-> val]

(***************************************************************************)
(* _process_received_data and the four handlers: what one framed line does *)
(* to the caches and which items it puts on the queue.  Every exception    *)
(* (JSONDecodeError, the TypeError of a JSON value that is no object) is   *)
(* swallowed, so the call always returns normally: raised is FALSE.        *)
(***************************************************************************)
\* (mutant) every JSON object is queued under its type, known or not
ProcessReceivedDataAnyType(text) ==
    LET v == JsonLoads(Strip(text))
    IN  [wi |-> welcome_info, db |-> device_boxes, ls |-> last_status,
         put |-> IF v # NoMsg /\ v.form = "obj"
                 THEN << Item(v.type, v.val) >> ELSE << >>,
         raised |-> FALSE]

\* (mutant) the caches keep the first message of a kind: a later welcome
\* or a later status of a compartment already known changes nothing
ProcessReceivedDataKeepFirst(text) ==
    LET v == JsonLoads(Strip(text))
        same == [wi |-> welcome_info, db |-> device_boxes, ls |-> last_status,
                 put |-> << >>, raised |-> FALSE]
    IN  CASE v = NoMsg -> same
          [] v.form # "obj" -> same
          [] v.type = "welcome" ->
                [same EXCEPT !.wi = IF welcome_info = NoMsg THEN v ELSE welcome_info,
                             !.db = IF welcome_info = NoMsg THEN v.val ELSE device_boxes,
                             !.put = << Item("welcome", v.val) >>]
          [] v.type = "status" ->
                [same EXCEPT !.put = << Item("status", v.val) >>]
          [] v.type = "box_event" ->
                [same EXCEPT !.put = << Item("box_event", v.val) >>]
          [] v.type = "compartment_status" ->
                IF v.val # 0
                THEN [same EXCEPT
                        !.ls = [c \in (DOMAIN last_status) \cup {v.val} |->
                                   IF c \in DOMAIN last_status
                                   THEN last_status[c] ELSE v],
                        !.put = << Item("compartment_status", v.val) >>]
                ELSE same
          [] OTHER -> same

ProcessReceivedData(text) ==
    LET v == JsonLoads(Strip(text))
        same == [wi |-> welcome_info, db |-> device_boxes, ls |-> last_status,
                 put |-> << >>, raised |-> FALSE]
    IN  CASE v = NoMsg -> same                               \* JSONDecodeError
          [] v.form # "obj" -> same                          \* TypeError, caught
          [] v.type = "" -> same                              \* no type field
          [] v.type = "welcome" ->
                [same EXCEPT !.wi = v, !.db = v.val,
                             !.put = << Item("welcome", v.val) >>]
          [] v.type = "status" ->
                [same EXCEPT !.put = << Item("status", v.val) >>]
          [] v.type = "box_event" ->
                [same EXCEPT !.put = << Item("box_event", v.val) >>]
          [] v.type = "compartment_status" ->
                IF v.val # 0                                  \* if compartment_id:
                THEN [same EXCEPT
                        !.ls = [c \in (DOMAIN last_status) \cup {v.val} |->
                                   IF c = v.val THEN v ELSE last_status[c]],
                        !.put = << Item("compartment_status", v.val) >>]
                ELSE same
          [] OTHER -> same                                    \* unknown type

RECURSIVE PutAll(_, _)
PutAll(q, items) ==
    IF items = << >> THEN q ELSE PutAll(QueuePut(q, Head(items)), Tail(items))

(***************************************************************************)
(* _listen_loop, one thread t.  pc: "off" not started, "loop" at the while *)
(* test, "recv" before socket.recv, "wait" blocked in recv, "frame" in the *)
(* inner while over complete lines, "done" returned.                       *)
(***************************************************************************)
\* while self.is_listening and self.is_connected: / if self.socket: /
\* self.socket.settimeout(1)
ListenCheck(t) ==
    /\ th[t].pc = "loop"
    /\ IF is_listening /\ is_connected
       THEN IF socket # 0
            THEN /\ socks' = [socks EXCEPT ![socket].tmo = PollTimeout]
                 /\ th' = [th EXCEPT ![t].pc = "recv"]
            ELSE UNCHANGED << socks, th >>
       ELSE /\ th' = [th EXCEPT ![t].pc = "done"]
            /\ UNCHANGED socks
    /\ UNCHANGED << sessionVars, nsock, net, devVars, nthreads, callVars, histVars >>
    /\ UNCHANGED extVars

\* self.socket.recv(1024) is entered: the wait is bounded by the timeout the
\* socket has now.  self.socket is None: AttributeError, caught, continue.
ListenRecvStart(t) ==
    /\ th[t].pc = "recv"
    /\ IF socket = 0
       THEN th' = [th EXCEPT ![t].pc = "loop"]
       ELSE th' = [th EXCEPT ![t] = [pc |-> "wait", sock |-> socket,
                                     tmo |-> socks[socket].tmo]]
    /\ UNCHANGED << sessionVars, netVars, devVars, nthreads, callVars, histVars >>
    /\ UNCHANGED extVars

\* recv returns bytes: decode, append to the buffer.  A chunk that does not
\* decode (UnicodeDecodeError) is dropped by "except Exception: continue".
ListenRecvData(t) ==
    /\ th[t].pc = "wait"
    /\ socks[th[t].sock].st = "open"
    /\ socks[th[t].sock].rx # << >>
    /\ LET data == socks[th[t].sock].rx
           buf == IF DecodeOk(data) THEN recv_buffer \o Decode(data) ELSE recv_buffer
       IN  /\ socks' = [socks EXCEPT ![th[t].sock].rx = << >>]
           /\ recv_buffer' = buf
           /\ th' = [th EXCEPT ![t].pc =
                        IF DecodeOk(data) /\ HasNL(buf) THEN "frame" ELSE "loop"]
    /\ UNCHANGED << socket, is_connected, is_listening, listen_thread,
                    welcome_info, device_boxes, last_status, message_queue,
                    nsock, net, devVars, nthreads, callVars, histVars >>
    /\ UNCHANGED extVars

\* recv times out (socket.timeout: continue), or the peer has closed and recv
\* returns no bytes ("if data:" is false): back to the while test.
ListenRecvNothing(t) ==
    /\ th[t].pc = "wait"
    /\ socks[th[t].sock].st = "open"
    /\ socks[th[t].sock].rx = << >>
    /\ socks[th[t].sock].peer \in {"up", "fin"}
    /\ th' = [th EXCEPT ![t].pc = "loop"]
    /\ UNCHANGED << sessionVars, netVars, devVars, nthreads, callVars, histVars >>
    /\ UNCHANGED extVars

\* recv raises socket.error (connection reset, socket not connected, socket
\* closed under the call): is_connected = False; break.
ListenRecvError(t) ==
    /\ th[t].pc = "wait"
    /\ \/ socks[th[t].sock].st \in {"new", "closed"}
       \/ socks[th[t].sock].st = "open" /\ socks[th[t].sock].peer = "rst"
    /\ is_connected' = FALSE
    /\ th' = [th EXCEPT ![t].pc = "done"]
    /\ UNCHANGED << socket, is_listening, listen_thread, recv_buffer,
                    welcome_info, device_boxes, last_status, message_queue,
                    netVars, devVars, nthreads, callVars, histVars >>
    /\ UNCHANGED extVars

\* One turn of "while '\n' in self.recv_buffer": split off the first line,
\* strip it, and process it unless it is empty.  An exception escaping
\* _process_received_data would leave the inner while ("except Exception:
\* continue" of the outer loop).
ListenFrame(t) ==
    /\ th[t].pc = "frame"
    /\ IF HasNL(recv_buffer)
       THEN LET line == Strip(SplitHead(recv_buffer))
                rest == SplitRest(recv_buffer)
                r == ProcessReceivedData(line)
            IN  /\ recv_buffer' = rest
                /\ IF line # << >>
                   THEN /\ welcome_info' = r.wi
                        /\ device_boxes' = r.db
                        /\ last_status' = r.ls
                        /\ message_queue' = PutAll(message_queue, r.put)
                        /\ disp_log' = Append(disp_log, line)
                        /\ put_log' = put_log \o r.put
                        /\ th' = [th EXCEPT ![t].pc =
                                    IF HasNL(rest) /\ ~r.raised THEN "frame" ELSE "loop"]
                   ELSE /\ th' = [th EXCEPT ![t].pc =
                                    IF HasNL(rest) THEN "frame" ELSE "loop"]
                        /\ UNCHANGED << welcome_info, device_boxes, last_status,
                                        message_queue, disp_log, put_log >>
       ELSE /\ th' = [th EXCEPT ![t].pc = "loop"]
            /\ UNCHANGED << recv_buffer, welcome_info, device_boxes, last_status,
                            message_queue, disp_log, put_log >>
    /\ UNCHANGED << socket, is_connected, is_listening, listen_thread,
                    netVars, devVars, nthreads, callVars,
                    dev_lines, taken_log, reply_seen >>
    /\ UNCHANGED extVars


(***************************************************************************)
(* The foreground thread.  cpc: "idle" between calls; "connecting" in      *)
(* socket.connect; "joining" in listen_thread.join; "closing" after it;    *)
(* "s_recv" before and "s_wait" in the recv of send_schedule_config;       *)
(* "draining" in the while of process_message_queue.                       *)
(***************************************************************************)
Returns(op, ret) ==
    /\ cpc' = "idle"
    /\ cloc' = NoLoc
    /\ last_call' = [op |-> op, ret |-> ret]

True == Ret("True", "", NoMsg)
False == Ret("False", "", NoMsg)
None == Ret("None", "", NoMsg)

\* socket.send on socket s fails: s is not connected, or the peer has reset.
SendFails(s) == socks[s].st # "open" \/ socks[s].peer = "rst"

\* The command reaches the device when the peer is still there.
Inbox(n) == IF DevUp /\ socket = nsock THEN Append(dev_inbox, n) ELSE dev_inbox

\* self.socket.send(message.encode('utf-8')) does not fail: the transport
\* takes all the bytes of the message or, when its buffer is short of room,
\* a proper prefix of them, and send returns the count (which no caller
\* reads).  n: the number of the command sent (0: a message the device does
\* not answer).  The device acts on a command once it has its whole line.
SocketSend(n, whole) ==
    /\ wire_out' = IF whole THEN "whole" ELSE "part"
    /\ dev_inbox' = IF whole /\ n # 0 THEN Inbox(n) ELSE dev_inbox

(***************************************************************************)
(* connect(): self.socket = socket.socket(...); settimeout(5); then the    *)
(* blocking socket.connect.                                                *)
(***************************************************************************)
ConnectCall ==
    /\ cpc = "idle"
    /\ nops < MaxOps
    /\ nops' = nops + 1
    /\ nsock' = nsock + 1
    /\ socket' = nsock + 1
    /\ socks' = [socks EXCEPT ![nsock + 1] =
                    [st |-> "new", peer |-> "up", rx |-> << >>, tmo |-> ConnectTimeout]]
    /\ cpc' = "connecting"
    /\ UNCHANGED << is_connected, is_listening, listen_thread, recv_buffer,
                    welcome_info, device_boxes, last_status, message_queue,
                    net, devVars, thVars, cloc, ncmd, last_call, histVars >>
    /\ UNCHANGED extVars

\* start_listening(): nothing when is_listening is already set, else the flag
\* is set and a new thread runs _listen_loop.
StartListening ==
    IF is_listening
    THEN UNCHANGED << is_listening, listen_thread, th, nthreads >>
    ELSE /\ is_listening' = TRUE
         /\ nthreads' = nthreads + 1
         /\ listen_thread' = nthreads + 1
         /\ th' = [th EXCEPT ![nthreads + 1] = [NoThread EXCEPT !.pc = "loop"]]

\* socket.connect succeeded: is_connected = True; start_listening(); True.
\* The device serves the new connection from now on.
ConnectOk ==
    /\ cpc = "connecting"
    /\ socks' = [socks EXCEPT ![socket].st = "open"]
    /\ is_connected' = TRUE
    /\ StartListening
    /\ net' = << >>
    /\ dev_inbox' = << >>
    /\ Returns("connect", True)
    /\ UNCHANGED << socket, recv_buffer, welcome_info, device_boxes, last_status,
                    message_queue, nsock, dev_sent, nops, ncmd, histVars >>
    /\ UNCHANGED extVars

\* socket.connect raised socket.error: is_connected = False; False.
ConnectFail ==
    /\ cpc = "connecting"
    /\ is_connected' = FALSE
    /\ Returns("connect", False)
    /\ UNCHANGED << socket, is_listening, listen_thread, recv_buffer,
                    welcome_info, device_boxes, last_status, message_queue,
                    netVars, devVars, thVars, nops, ncmd, histVars >>
    /\ UNCHANGED extVars

(***************************************************************************)
(* disconnect(): is_connected = False; stop_listening() (is_listening =    *)
(* False, join the thread for at most 2 s); close the socket and forget it.*)
(***************************************************************************)
DisconnectCall ==
    /\ cpc = "idle"
    /\ nops < MaxOps
    /\ nops' = nops + 1
    /\ is_connected' = FALSE
    /\ is_listening' = FALSE
    /\ cpc' = "joining"
    /\ UNCHANGED << socket, listen_thread, recv_buffer, welcome_info,
                    device_boxes, last_status, message_queue,
                    netVars, devVars, thVars, cloc, ncmd, last_call, histVars >>
    /\ UNCHANGED extVars

ThreadAlive(t) == t # 0 /\ th[t].pc \notin {"off", "done"}

\* "if self.listen_thread and self.listen_thread.is_alive()": no thread to
\* wait for, or join returns because the thread has ended.
JoinDone ==
    /\ cpc = "joining"
    /\ ~ThreadAlive(listen_thread)
    /\ cpc' = "closing"
    /\ UNCHANGED << sessionVars, netVars, devVars, thVars, cloc, nops, ncmd,
                    last_call, histVars >>
    /\ UNCHANGED extVars

\* join(timeout=2) gives up: the thread is blocked in a recv whose wait is
\* longer than the join's.
JoinExpires ==
    /\ cpc = "joining"
    /\ ThreadAlive(listen_thread)
    /\ th[listen_thread].pc = "wait"
    /\ th[listen_thread].tmo > JoinTimeout
    /\ cpc' = "closing"
    /\ UNCHANGED << sessionVars, netVars, devVars, thVars, cloc, nops, ncmd,
                    last_call, histVars >>
    /\ UNCHANGED extVars

\* disconnect() without "self.socket = None".
DisconnectCloseKeepsSocket ==
    /\ cpc = "closing"
    /\ IF socket # 0
       THEN socks' = [socks EXCEPT ![socket].st = "closed", ![socket].rx = << >>]
       ELSE UNCHANGED socks
    /\ net' = << >>
    /\ dev_inbox' = << >>
    /\ Returns("disconnect", None)
    /\ UNCHANGED << socket, is_connected, is_listening, listen_thread, recv_buffer,
                    welcome_info, device_boxes, last_status, message_queue,
                    nsock, dev_sent, thVars, nops, ncmd, histVars >>
    /\ UNCHANGED extVars

\* if self.socket: close it (errors ignored); self.socket = None
DisconnectClose ==
    /\ cpc = "closing"
    /\ IF socket # 0
       THEN /\ socks' = [socks EXCEPT ![socket].st = "closed", ![socket].rx = << >>]
            /\ socket' = 0
       ELSE UNCHANGED << socks, socket >>
    /\ net' = << >>
    /\ dev_inbox' = << >>
    /\ Returns("disconnect", None)
    /\ UNCHANGED << is_connected, is_listening, listen_thread, recv_buffer,
                    welcome_info, device_boxes, last_status, message_queue,
                    nsock, dev_sent, thVars, nops, ncmd, histVars >>
    /\ UNCHANGED extVars


(***************************************************************************)
(* send_schedule_config(schedules).  A schedule of the list is            *)
(* [medication_id, is_active, notes] with notes a sequence of n characters.*)
(* The status of the result is decided by which except clause the outcome  *)
(* of the exchange reaches.                                                *)
(***************************************************************************)
NotesLimit == 100
ScheduleDict(id, active, n) ==
    [medication_id |-> id, is_active |-> active, notes |-> [i \in 1..n |-> i % 10]]
OneActive == << ScheduleDict(0, TRUE, 3) >>

\* The medications list without the test of is_active.
BuildMedicationsKeepInactive(schedules) ==
    [i \in 1..Len(schedules) |->
        [medication_id |-> schedules[i].medication_id,
         notes |-> SubSeq(schedules[i].notes, 1,
                          IF Len(schedules[i].notes) > NotesLimit THEN NotesLimit
                          ELSE Len(schedules[i].notes))]]

\* The medications list built from the schedules: "if not
\* schedule.get('is_active', True): continue" and
\* "schedule.get('notes', '')[:100]".
BuildMedications(schedules) ==
    LET act == SelectSeq(schedules, LAMBDA sch : sch.is_active)
    IN  [i \in 1..Len(act) |->
            [medication_id |-> act[i].medication_id,
             notes |-> SubSeq(act[i].notes, 1,
                              IF Len(act[i].notes) > NotesLimit THEN NotesLimit
                              ELSE Len(act[i].notes))]]

\* What json.loads makes of the bytes read (NoMsg: they are not one JSON text).
Parsed(data) == IF DecodeOk(data) THEN JsonLoads(Strip(Decode(data))) ELSE NoMsg

\* send_schedule_config without its "except socket.timeout" clause.
SscStatusNoTimeoutClause(why) ==
    CASE why = "response" -> "RESPONSE"
      [] OTHER            -> "ERROR"

SscStatus(why) ==
    CASE why = "timeout"        -> "TIMEOUT"   \* except socket.timeout
      [] why = "invalid_format" -> "ERROR"     \* except json.JSONDecodeError
      [] why = "not_connected"  -> "ERROR"     \* the guard at the top
      [] why = "no_active"      -> "ERROR"     \* if not medications
      [] why = "exception"      -> "ERROR"     \* except Exception
      [] OTHER                  -> "RESPONSE"  \* return response

SscResult(why, msg) == Ret(SscStatus(why), why, msg)

\* Up to socket.send and socket.settimeout(5).
SscCall(schedules) ==
    /\ cpc = "idle"
    /\ nops < MaxOps
    /\ nops' = nops + 1
    /\ reply_seen' = FALSE
    /\ IF ~is_connected \/ socket = 0
       THEN /\ Returns("send_schedule_config", SscResult("not_connected", NoMsg))
            /\ wire_out' = "none"
            /\ UNCHANGED << socks, dev_inbox, ncmd >>
       ELSE IF BuildMedications(schedules) = << >>
       THEN /\ Returns("send_schedule_config", SscResult("no_active", NoMsg))
            /\ wire_out' = "none"
            /\ UNCHANGED << socks, dev_inbox, ncmd >>
       ELSE IF SendFails(socket)
       THEN /\ Returns("send_schedule_config", SscResult("exception", NoMsg))
            /\ wire_out' = "none"
            /\ UNCHANGED << socks, dev_inbox, ncmd >>
       ELSE /\ ncmd' = ncmd + 1
            /\ \E whole \in BOOLEAN : SocketSend(ncmd + 1, whole)
            /\ cloc' = [cmd |-> ncmd + 1, old |-> socks[socket].tmo, tmo |-> 0,
                        meds |-> BuildMedications(schedules)]
            /\ socks' = [socks EXCEPT ![socket].tmo = CmdTimeout]
            /\ cpc' = "s_recv"
            /\ UNCHANGED last_call
    /\ UNCHANGED << sessionVars, nsock, net, dev_sent, thVars,
                    dev_lines, disp_log, put_log, taken_log, parVars,
                    offVars >>

\* self.socket.recv(2048) is entered with the timeout the socket has now.
SscRecvStart ==
    /\ cpc = "s_recv"
    /\ cloc' = [cloc EXCEPT !.tmo = socks[socket].tmo]
    /\ cpc' = "s_wait"
    /\ UNCHANGED << sessionVars, netVars, devVars, thVars, nops, ncmd,
                    last_call, histVars >>
    /\ UNCHANGED extVars

\* finally: self.socket.settimeout(old_timeout)
SscRestore == socks' = [socks EXCEPT ![socket].tmo = cloc.old, ![socket].rx = << >>]

\* recv returns whatever bytes are there; json.loads of their stripped text.
SscRecvData ==
    /\ cpc = "s_wait"
    /\ socks[socket].rx # << >>
    /\ LET data == socks[socket].rx
           v == IF DecodeOk(data) THEN JsonLoads(Strip(Decode(data))) ELSE NoMsg
           why == IF ~DecodeOk(data) THEN "exception"
                  ELSE IF v = NoMsg THEN "invalid_format" ELSE "response"
       IN  Returns("send_schedule_config", SscResult(why, v))
    /\ SscRestore
    /\ UNCHANGED << sessionVars, nsock, net, devVars, thVars, nops, ncmd, histVars >>
    /\ UNCHANGED extVars

\* Nothing arrives within the wait: socket.timeout.
SscRecvTimeout ==
    /\ cpc = "s_wait"
    /\ socks[socket].rx = << >>
    /\ socks[socket].peer = "up"
    /\ Returns("send_schedule_config", SscResult("timeout", NoMsg))
    /\ SscRestore
    /\ UNCHANGED << sessionVars, nsock, net, devVars, thVars, nops, ncmd, histVars >>
    /\ UNCHANGED extVars

\* The peer closed (recv returns b'': JSONDecodeError) or reset the
\* connection (socket.error, caught by the outer except Exception).
SscRecvLost ==
    /\ cpc = "s_wait"
    /\ socks[socket].rx = << >>
    /\ socks[socket].peer \in {"fin", "rst"}
    /\ Returns("send_schedule_config",
               SscResult(IF socks[socket].peer = "fin" THEN "invalid_format"
                         ELSE "exception", NoMsg))
    /\ SscRestore
    /\ UNCHANGED << sessionVars, nsock, net, devVars, thVars, nops, ncmd, histVars >>
    /\ UNCHANGED extVars

(***************************************************************************)
(* _send_json(data): the fire-and-forget send.  cmd: the data is a SET_TIME*)
(* command, which the device answers; else a typed message.                *)
(***************************************************************************)
SendJson(cmd) ==
    /\ cpc = "idle"
    /\ nops < MaxOps
    /\ nops' = nops + 1
    /\ IF ~is_connected \/ socket = 0
       THEN /\ Returns("_send_json", False)
            /\ wire_out' = "none"
            /\ UNCHANGED << is_connected, dev_inbox, ncmd >>
       ELSE IF SendFails(socket)
       THEN /\ is_connected' = FALSE
            /\ Returns("_send_json", False)
            /\ wire_out' = "none"
            /\ UNCHANGED << dev_inbox, ncmd >>
       ELSE /\ Returns("_send_json", True)
            /\ ncmd' = IF cmd THEN ncmd + 1 ELSE ncmd
            /\ \E whole \in BOOLEAN :
                  SocketSend(IF cmd THEN ncmd + 1 ELSE 0, whole)
            /\ UNCHANGED is_connected
    /\ UNCHANGED << socket, is_listening, listen_thread, recv_buffer,
                    welcome_info, device_boxes, last_status, message_queue,
                    netVars, dev_sent, thVars, histVars, parVars, offVars >>

(***************************************************************************)
(* send_schedule_config(schedules) called by a second thread while the     *)
(* foreground thread uses the session: the method takes no lock and keeps  *)
(* no record of a call in progress.  The call is two steps: up to entering *)
(* recv, and the return from recv.                                         *)
(***************************************************************************)
BgSscCall ==
    /\ bpc = "idle"
    /\ nops < MaxOps
    /\ nops' = nops + 1
    /\ IF ~is_connected \/ socket = 0
       THEN /\ bret' = SscResult("not_connected", NoMsg)
            /\ wire_out' = "none"
            /\ UNCHANGED << socks, dev_inbox, ncmd, bpc, bloc >>
       ELSE IF SendFails(socket)
       THEN /\ bret' = SscResult("exception", NoMsg)
            /\ wire_out' = "none"
            /\ UNCHANGED << socks, dev_inbox, ncmd, bpc, bloc >>
       ELSE /\ ncmd' = ncmd + 1
            /\ \E whole \in BOOLEAN : SocketSend(ncmd + 1, whole)
            /\ bloc' = [cmd |-> ncmd + 1, old |-> socks[socket].tmo]
            /\ socks' = [socks EXCEPT ![socket].tmo = CmdTimeout]
            /\ bpc' = "s_wait"
            /\ UNCHANGED bret
    /\ UNCHANGED << sessionVars, nsock, net, dev_sent, thVars,
                    cpc, cloc, last_call, histVars, offVars >>

BgSscReturn ==
    /\ bpc = "s_wait"
    /\ socket # 0
    /\ LET data == socks[socket].rx
           why == IF data # << >>
                  THEN (IF ~DecodeOk(data) THEN "exception"
                        ELSE IF Parsed(data) = NoMsg THEN "invalid_format"
                        ELSE "response")
                  ELSE (IF socks[socket].peer = "up" THEN "timeout"
                        ELSE IF socks[socket].peer = "fin" THEN "invalid_format"
                        ELSE "exception")
       IN  bret' = SscResult(why, IF why = "response" THEN Parsed(data) ELSE NoMsg)
    /\ socks' = [socks EXCEPT ![socket].tmo = bloc.old, ![socket].rx = << >>]
    /\ bpc' = "idle"
    /\ UNCHANGED << sessionVars, nsock, net, devVars, thVars, callVars,
                    histVars, wire_out, bloc, offVars >>

(***************************************************************************)
(* process_message_queue(): while not queue.empty(): get_nowait(); handle. *)
(***************************************************************************)
DrainCall ==
    /\ cpc = "idle"
    /\ message_queue # << >>
    /\ cpc' = "draining"
    /\ UNCHANGED << sessionVars, netVars, devVars, thVars, cloc, nops, ncmd,
                    last_call, histVars >>
    /\ UNCHANGED extVars

DrainStep ==
    /\ cpc = "draining"
    /\ IF message_queue = << >>
       THEN /\ Returns("process_message_queue", None)
            /\ UNCHANGED << message_queue, taken_log >>
       ELSE /\ taken_log' = Append(taken_log, QueueGet(message_queue))
            /\ message_queue' = QueueRest(message_queue)
            /\ UNCHANGED << cpc, cloc, last_call >>
    /\ UNCHANGED << socket, is_connected, is_listening, listen_thread,
                    recv_buffer, welcome_info, device_boxes, last_status,
                    netVars, devVars, thVars, nops, ncmd,
                    dev_lines, disp_log, put_log, reply_seen >>
    /\ UNCHANGED extVars


(***************************************************************************)
(* Lines the device pushes.                                                *)
(***************************************************************************)
Welcome == Line("obj", "welcome", 0, 1, "ascii", "crlf")
Status == Line("obj", "status", 0, 1, "ascii", "lf")
BoxEvent == Line("obj", "box_event", 0, 1, "ascii", "lf")
CompStatus == Line("obj", "compartment_status", 0, 1, "ascii", "lf")
StatusUtf8 == Line("obj", "status", 0, 2, "utf8", "lf")
Typeless == Line("obj", "", 0, 1, "ascii", "lf")
UnknownType == Line("obj", "future", 0, 1, "ascii", "lf")
Scalar == Line("scalar", "", 0, 1, "ascii", "lf")
Garbage == Line("bad", "", 0, 1, "ascii", "lf")
Blank == Line("empty", "", 0, 0, "ascii", "crlf")


Listener(t) ==
    \/ ListenCheck(t)
    \/ ListenRecvStart(t)
    \/ ListenRecvData(t)
    \/ ListenRecvNothing(t)
    \/ ListenRecvError(t)
    \/ ListenFrame(t)

\* Everything in flight arrives at once.
DeliverAll == net # << >> /\ Deliver(Len(net))

(***************************************************************************)
(* Spec: the life cycle of the session.  The foreground thread connects,   *)
(* disconnects, sends commands and messages in any order; the device       *)
(* answers commands and may drop the connection.                           *)
(***************************************************************************)
Next ==
    \/ ConnectCall
    \/ ConnectOk
    \/ ConnectFail
    \/ DisconnectCall
    \/ JoinDone
    \/ JoinExpires
    \/ DisconnectClose
    \/ SscCall(OneActive)
    \/ SscRecvStart
    \/ SscRecvData
    \/ SscRecvTimeout
    \/ SscRecvLost
    \/ \E cmd \in BOOLEAN : SendJson(cmd)
    \/ DevReply
    \/ DeliverAll
    \/ \E how \in {"rst", "fin"} : PeerGone(how)
    \/ \E t \in Threads : Listener(t)

Spec == Init /\ [][Next]_vars

(***************************************************************************)
(* SpecCmd: commands on one connection.  The device answers commands and   *)
(* pushes lines of its own.                                                *)
(***************************************************************************)
CmdLines == { Status }

NextCmd ==
    \/ ConnectCall /\ nsock = 0
    \/ ConnectOk
    \/ \E schedules \in {<< >>, OneActive} : SscCall(schedules)
    \/ SscRecvStart
    \/ SscRecvData
    \/ SscRecvTimeout
    \/ SscRecvLost
    \/ SendJson(TRUE)
    \/ \E l \in CmdLines : dev_sent < MaxCmdPushes /\ DevPush(l)
    \/ DevReply
    \/ DeliverAll
    \/ \E how \in {"rst", "fin"} : PeerGone(how)
    \/ \E t \in Threads : Listener(t)

SpecCmd == Init /\ [][NextCmd]_vars

(***************************************************************************)
(* SpecResult: send_schedule_config alone on one connection.  The device   *)
(* answers each command, late or not at all, the receive loop reads the    *)
(* same socket, and the peer may reset or close the connection.            *)
(***************************************************************************)
NextResult ==
    \/ ConnectCall /\ nsock = 0
    \/ ConnectOk
    \/ \E schedules \in {<< >>, OneActive} : SscCall(schedules)
    \/ SscRecvStart
    \/ SscRecvData
    \/ SscRecvTimeout
    \/ SscRecvLost
    \/ DevReply
    \/ DeliverAll
    \/ \E how \in {"rst", "fin"} : PeerGone(how)
    \/ \E t \in Threads : Listener(t)

SpecResult == Init /\ [][NextResult]_vars

(***************************************************************************)
(* SpecFrame: the receive loop on one connection that stays up.  The       *)
(* device pushes lines of every kind, their bytes arrive in pieces of any  *)
(* size, and the consumer drains the queue.                                *)
(***************************************************************************)
FrameLines == { Welcome, Status, BoxEvent, CompStatus, StatusUtf8, Typeless,
                UnknownType, Scalar, Garbage, Blank }

FrameListener(t) ==
    \/ ListenCheck(t)
    \/ ListenRecvStart(t)
    \/ ListenRecvData(t)
    \/ ListenRecvNothing(t)
    \/ ListenFrame(t)

NextFrame ==
    \/ ConnectCall /\ nsock = 0
    \/ ConnectOk
    \/ \E l \in FrameLines : DevPush(l)
    \/ \E k \in 1..Len(net) : Deliver(k)
    \/ \E t \in Threads : FrameListener(t)
    \/ DrainCall
    \/ DrainStep

SpecFrame == Init /\ [][NextFrame]_vars

(***************************************************************************)
(* SpecCache: the receive loop on one connection with lines that differ in *)
(* what they carry: two welcome messages, statuses of two compartments     *)
(* (two of them of the same compartment), a status that names no           *)
(* compartment, and messages the caches do not keep.  Each line arrives    *)
(* in one piece.                                                           *)
(***************************************************************************)
CacheLines ==
    { Welcome, Line("obj", "welcome", 0, 2, "ascii", "lf"),
      CompStatus, Line("obj", "compartment_status", 0, 1, "utf8", "lf"),
      Line("obj", "compartment_status", 0, 2, "ascii", "lf"),
      Line("obj", "compartment_status", 0, 0, "ascii", "lf"),
      Status, BoxEvent, UnknownType, Typeless }

NextCache ==
    \/ ConnectCall /\ nsock = 0
    \/ ConnectOk
    \/ \E l \in CacheLines : DevPush(l)
    \/ DeliverAll
    \/ \E t \in Threads : FrameListener(t)

SpecCache == Init /\ [][NextCache]_vars

(***************************************************************************)
(* SpecCallback: callbacks are registered with add_status_callback before  *)
(* and between the messages the receive loop dispatches.  No method of     *)
(* the class reads self.status_callbacks, so no action calls a callback    *)
(* and cb_log gets registrations only.                                     *)
(***************************************************************************)
MaxCallbacks == 1

AddStatusCallback(cb) ==
    /\ cpc = "idle"
    /\ Len(status_callbacks) < MaxCallbacks
    /\ status_callbacks' = Append(status_callbacks, cb)
    /\ cb_log' = Append(cb_log, [ev |-> "add", cb |-> cb, at |-> Len(disp_log)])
    /\ UNCHANGED << commVars, discVars, ctorVars, medVars, f_call, f_ret >>

NextCallback ==
    \/ \E cb \in 1..MaxCallbacks : AddStatusCallback(cb)
    \/ ConnectCall /\ nsock = 0
    \/ ConnectOk
    \/ \E l \in {Welcome, BoxEvent, Status, CompStatus} : DevPush(l)
    \/ DeliverAll
    \/ \E t \in Threads : FrameListener(t)

SpecCallback == Init /\ [][NextCallback]_vars /\ WF_vars(NextCallback)

(***************************************************************************)
(* SpecReconn: a session that is disconnected, or whose connection breaks, *)
(* and is connected again.  The device pushes lines on each connection and *)
(* their bytes arrive in pieces of any size.                               *)
(***************************************************************************)
NextReconn ==
    \/ ConnectCall /\ ~is_connected
    \/ ConnectOk
    \/ DisconnectCall
    \/ JoinDone
    \/ DisconnectClose
    \/ \E l \in {Welcome, Status} : DevPush(l)
    \/ \E k \in 1..Len(net) : Deliver(k)
    \/ PeerGone("rst")
    \/ \E t \in Threads : Listener(t)

SpecReconn == Init /\ [][NextReconn]_vars

(***************************************************************************)
(* SpecClose: the device pushes lines and then closes the connection in an *)
(* orderly way; the caller does nothing after connect().  The receive loop *)
(* is scheduled fairly; no recv of it raises, as the socket is neither     *)
(* reset nor closed by the caller.                                         *)
(***************************************************************************)
NextClose ==
    \/ ConnectCall /\ nsock = 0
    \/ ConnectOk
    \/ \E l \in {Welcome, Status} : DevPush(l)
    \/ \E k \in 1..Len(net) : Deliver(k)
    \/ PeerGone("fin")
    \/ \E t \in Threads : FrameListener(t)

SpecClose ==
    Init /\ [][NextClose]_vars /\ WF_vars(\E t \in Threads : FrameListener(t))

(***************************************************************************)
(* SpecPar: two threads call send_schedule_config on one connection.       *)
(***************************************************************************)
NextPar ==
    \/ ConnectCall /\ nsock = 0
    \/ ConnectOk
    \/ SscCall(OneActive)
    \/ SscRecvStart
    \/ SscRecvData
    \/ SscRecvTimeout
    \/ BgSscCall
    \/ BgSscReturn
    \/ DevReply
    \/ DeliverAll
    \/ \E t \in Threads : FrameListener(t)

SpecPar == Init /\ [][NextPar]_vars

(***************************************************************************)
(* SpecBuild: send_schedule_config on one connection with every list of    *)
(* at most MaxSchedules schedules: active and inactive ones, with notes    *)
(* shorter than, as long as and longer than the limit.                     *)
(***************************************************************************)
MaxSchedules == 2

ScheduleDicts ==
    { ScheduleDict(0, TRUE, 3), ScheduleDict(1, FALSE, 3),
      ScheduleDict(2, TRUE, NotesLimit), ScheduleDict(3, TRUE, NotesLimit + 1),
      ScheduleDict(4, FALSE, NotesLimit + 1) }

ScheduleLists == UNION { [1..n -> ScheduleDicts] : n \in 0..MaxSchedules }

NextBuild ==
    \/ ConnectCall /\ nsock = 0
    \/ ConnectOk
    \/ \E schedules \in ScheduleLists : SscCall(schedules)
    \/ SscRecvStart
    \/ SscRecvData
    \/ SscRecvTimeout
    \/ DevReply
    \/ DeliverAll

SpecBuild == Init /\ [][NextBuild]_vars

(***************************************************************************)
(* ESP32Discovery (src/esp32_discovery.py).  A reply is the datagram that  *)
(* recvfrom returns: dec: its bytes decode as UTF-8; form: "obj" a JSON    *)
(* object, "scalar" valid JSON that is no object, "bad" not JSON; device:  *)
(* the "device" member ("" when absent); ip, port: the members of these    *)
(* names (0 when absent).                                                  *)
(***************************************************************************)
DReply(dec, form, device, ip, port) ==
    [dec |-> dec, form |-> form, device |-> device, ip |-> ip, port |-> port]

BadBytes == DReply(FALSE, "obj", "ESP32-Pillbox", 1, 9090)
NotJson == DReply(TRUE, "bad", "", 0, 0)
JsonScalar == DReply(TRUE, "scalar", "", 0, 0)
OtherDevice == DReply(TRUE, "obj", "ESP32-Lamp", 2, 9090)
NoDevice == DReply(TRUE, "obj", "", 2, 9090)
Pillbox == DReply(TRUE, "obj", "ESP32-Pillbox", 1, 9090)
PillboxNoPort == DReply(TRUE, "obj", "ESP32-Pillbox", 1, 0)
PillboxNoIp == DReply(TRUE, "obj", "ESP32-Pillbox", 0, 9090)

Replies == { BadBytes, NotJson, JsonScalar, OtherDevice, NoDevice,
             Pillbox, PillboxNoPort, PillboxNoIp }

\* (None, None)
NotFound == [ip |-> 0, port |-> 0]

\* What json.loads(data.decode('utf-8')) and response.get('device') make of
\* a reply: the exception raised, or "ok".
DiscoverParse(r) ==
    IF ~r.dec THEN "UnicodeDecodeError"        \* outer except Exception
    ELSE IF r.form = "bad" THEN "JSONDecodeError"
    ELSE IF r.form = "scalar" THEN "AttributeError"  \* outer except Exception
    ELSE "ok"

\* discover() that does not compare the device kind.
DiscoverOutcomeAnyDevice(r) ==
    IF DiscoverParse(r) = "ok"
    THEN [ip |-> r.ip, port |-> IF r.port = 0 THEN DefaultPort ELSE r.port]
    ELSE NotFound

\* discover() that returns the default port whatever the reply holds.
DiscoverOutcomeFixedPort(r) ==
    IF DiscoverParse(r) = "ok" /\ r.device = "ESP32-Pillbox"
    THEN [ip |-> r.ip, port |-> DefaultPort]
    ELSE NotFound

\* The value discover() returns when recvfrom returned reply r.
DiscoverOutcome(r) ==
    IF DiscoverParse(r) = "ok" /\ r.device = "ESP32-Pillbox"
    THEN [ip |-> r.ip, port |-> IF r.port = 0 THEN DefaultPort ELSE r.port]
    ELSE NotFound

\* discover_with_retry that gives up one attempt early.
RetryAfterOneShort(res) ==
    IF res.ip # 0
    THEN d_pc' = "done" /\ d_result' = res
    ELSE IF d_attempt + 1 < d_max
    THEN d_pc' = "sleep" /\ UNCHANGED d_result
    ELSE d_pc' = "done" /\ d_result' = NotFound

\* The body of the for loop after result = self.discover(): "if result[0]:
\* return result"; "if attempt < max_retries: time.sleep(1)"; after the
\* last attempt "return None, None".
RetryAfter(res) ==
    IF res.ip # 0
    THEN d_pc' = "done" /\ d_result' = res
    ELSE IF d_attempt < d_max
    THEN d_pc' = "sleep" /\ UNCHANGED d_result
    ELSE d_pc' = "done" /\ d_result' = NotFound

Met(kind, r) == [kind |-> kind, reply |-> r]

\* discover_with_retry(max_retries = m) is called.
DiscoverCall(m) ==
    /\ d_pc = "idle"
    /\ d_max' = m
    /\ d_attempt' = 1
    /\ d_pc' = "attempt"
    /\ UNCHANGED << d_bcasts, d_sleeps, d_log, d_result, discFrame >>

\* discover(): socket.socket, setsockopt or sendto raises; the outer except
\* returns (None, None).  No broadcast went out.
DiscoverSocketError ==
    /\ d_pc = "attempt"
    /\ d_log' = Append(d_log, Met("sockerr", NotJson))
    /\ RetryAfter(NotFound)
    /\ UNCHANGED << d_max, d_attempt, d_bcasts, d_sleeps, discFrame >>

\* discover(): the broadcast is sent and recvfrom times out.
DiscoverTimeout ==
    /\ d_pc = "attempt"
    /\ d_bcasts' = d_bcasts + 1
    /\ d_log' = Append(d_log, Met("timeout", NotJson))
    /\ RetryAfter(NotFound)
    /\ UNCHANGED << d_max, d_attempt, d_sleeps, discFrame >>

\* discover(): the broadcast is sent and recvfrom returns reply r.
DiscoverReply(r) ==
    /\ d_pc = "attempt"
    /\ d_bcasts' = d_bcasts + 1
    /\ d_log' = Append(d_log, Met("reply", r))
    /\ RetryAfter(DiscoverOutcome(r))
    /\ UNCHANGED << d_max, d_attempt, d_sleeps, discFrame >>

\* time.sleep(1), then the next turn of the for loop.
DiscoverSleep ==
    /\ d_pc = "sleep"
    /\ d_sleeps' = d_sleeps + 1
    /\ d_attempt' = d_attempt + 1
    /\ d_pc' = "attempt"
    /\ UNCHANGED << d_max, d_bcasts, d_log, d_result, discFrame >>

(***************************************************************************)
(* SimplePillboxCommunicator.__init__ and system_config.json.  The file is *)
(* form "none" (missing or no JSON), "array" (JSON that is no object) or   *)
(* "obj"; ip and port are its pillbox_ip and pillbox_port members: Absent  *)
(* when the key is missing, 0 when it is null.                             *)
(***************************************************************************)
Absent == 0 - 1
CfgFile(form, i, p) == [form |-> form, ip |-> i, port |-> p]
NoCfgFile == CfgFile("none", Absent, Absent)
CfgFiles == { NoCfgFile, CfgFile("array", Absent, Absent) }
            \cup { CfgFile("obj", i, p) : i \in {Absent, 0, 3},
                                          p \in {Absent, 0, 7070} }

\* discover_esp32(timeout=3, max_retries=2) of _auto_discover_esp32
AutoRetries == 2

\* load_from_config of esp32_discovery.py, which the constructor does not
\* use: no default ip.
LoadFromConfigNoDefaultIp(c) ==
    IF c.form = "obj"
    THEN [ip |-> IF c.ip = Absent THEN 0 ELSE c.ip,
          port |-> IF c.port = Absent THEN DefaultPort ELSE c.port]
    ELSE NotFound

\* _load_from_config: the (self.ip, self.port) it sets.
LoadFromConfig(c) ==
    IF c.form = "obj"
    THEN [ip |-> IF c.ip = Absent THEN DefaultIp ELSE c.ip,
          port |-> IF c.port = Absent THEN DefaultPort ELSE c.port]
    ELSE [ip |-> DefaultIp, port |-> DefaultPort]

\* save_to_config(ip, port): reads the file to keep its other members,
\* sets the two members and writes the file back; can says whether the file
\* can be opened for writing.  Every exception is swallowed.
SaveToConfig(i, p, can) ==
    IF cfg.form = "array"       \* config['pillbox_ip'] = ip: TypeError
    THEN /\ cfg_log' = Append(cfg_log, "read")
         /\ UNCHANGED cfg
    ELSE IF can
    THEN /\ cfg_log' = cfg_log \o << "read", "write" >>
         /\ cfg' = CfgFile("obj", i, p)
    ELSE /\ cfg_log' = cfg_log \o << "read", "writefail" >>
         /\ UNCHANGED cfg

\* The file as the program finds it when it starts.
CfgEdit(c) ==
    /\ k_pc = "new"
    /\ d_pc = "idle"
    /\ cfg' = c
    /\ UNCHANGED << k_pc, k_args, self_ip, self_port, cfg_log, discVars,
                    commVars, medVars, f_call, f_ret, cbVars >>

\* SimplePillboxCommunicator(ip=a, auto_discover=auto), up to the call of
\* discover_esp32 when it is made.
Construct(a, auto) ==
    /\ k_pc = "new"
    /\ d_pc = "idle"
    /\ k_args' = [ip |-> a, auto |-> auto]
    /\ self_ip' = a
    /\ self_port' = DefaultPort
    /\ IF a = 0 /\ auto
       THEN /\ k_pc' = "discover"
            /\ d_max' = AutoRetries
            /\ d_attempt' = 1
            /\ d_pc' = "attempt"
       ELSE /\ k_pc' = "built"
            /\ UNCHANGED << d_max, d_attempt, d_pc >>
    /\ UNCHANGED << d_bcasts, d_sleeps, d_log, d_result, cfg, cfg_log,
                    commVars, medVars, f_call, f_ret, cbVars >>

\* _auto_discover_esp32 after discover_esp32 returned an ip.
CtorDiscovered ==
    /\ k_pc = "discover"
    /\ d_pc = "done"
    /\ d_result.ip # 0
    /\ self_ip' = d_result.ip
    /\ self_port' = d_result.port
    /\ \E can \in BOOLEAN : SaveToConfig(d_result.ip, d_result.port, can)
    /\ k_pc' = "built"
    /\ UNCHANGED << k_args, discVars, commVars, medVars, f_call, f_ret, cbVars >>

\* _auto_discover_esp32 after discover_esp32 returned (None, None).
CtorFallback ==
    /\ k_pc = "discover"
    /\ d_pc = "done"
    /\ d_result.ip = 0
    /\ cfg_log' = Append(cfg_log, "read")
    /\ self_ip' = LoadFromConfig(cfg).ip
    /\ self_port' = LoadFromConfig(cfg).port
    /\ k_pc' = "built"
    /\ UNCHANGED << k_args, cfg, discVars, commVars, medVars, f_call, f_ret, cbVars >>

(***************************************************************************)
(* SpecDisc: one discovery.  Each call of discover() returns (recvfrom has *)
(* a timeout) and each sleep ends, so the loop is weakly fair.             *)
(***************************************************************************)
NextDisc ==
    \/ \E m \in 1..MaxRetries : DiscoverCall(m)
    \/ DiscoverSocketError
    \/ DiscoverTimeout
    \/ \E r \in Replies : DiscoverReply(r)
    \/ DiscoverSleep
    \/ \E c \in CfgFiles : CfgEdit(c)
    \/ \E a \in {0, 5}, auto \in BOOLEAN : Construct(a, auto)
    \/ CtorDiscovered
    \/ CtorFallback

SpecDisc == Init /\ [][NextDisc]_vars /\ WF_vars(NextDisc)

(***************************************************************************)
(* MedicationRecorder (src/simple_models.py).  A schedule is [id, med,     *)
(* times, active, start_date, end_date] with med the number n of           *)
(* medication_id "Mn", times the schedule_times in minutes of the day      *)
(* ("08:00" is 480) and the two dates as day numbers (schedule 2 ended     *)
(* before day 1, schedule 4 starts after the days modelled); the sequence  *)
(* is the order in which get_all_schedules returns the rows.  A row of     *)
(* medication_records is [sched, time, day, status] with day the date part *)
(* of created_at.  store holds the rows oldest first, so "ORDER BY         *)
(* created_at DESC LIMIT n" is its last n rows.                            *)
(***************************************************************************)
Schedules ==
    << [id |-> 1, med |-> 0, times |-> << 480, 1200 >>, active |-> TRUE,
        start_date |-> 1, end_date |-> 9],
       [id |-> 3, med |-> 3, times |-> << 1200 >>, active |-> FALSE,
        start_date |-> 1, end_date |-> 9],
       [id |-> 2, med |-> 1, times |-> << 480 >>, active |-> TRUE,
        start_date |-> 0, end_date |-> 0],
       [id |-> 4, med |-> 2, times |-> << 1500, 1439 >>, active |-> TRUE,
        start_date |-> 9, end_date |-> 9] >>

\* get_all_schedules in the place of get_active_schedules
GetAllSchedules == SelectSeq(Schedules, LAMBDA sch : TRUE)

\* get_active_schedules
GetActiveSchedules == SelectSeq(Schedules, LAMBDA sch : sch.active)

\* _has_recent_record(schedule, time_str, date_str) on the rows st
HasRecentRecord(st, sid, t, day) ==
    LET n == Len(st)
        lo == IF n > RecentLimit THEN n - RecentLimit + 1 ELSE 1
    IN  \E i \in lo..n :
            st[i].sched = sid /\ st[i].time = t /\ st[i].day = day

\* _get_nearest_scheduled_time with "<=" for "<" in "if diff < min_diff".
GetNearestScheduledTimeLastOnTie(sch, tod) ==
    LET Dist(t) == IF t > tod THEN t - tod ELSE tod - t
        RECURSIVE Near(_, _)
        Near(j, nearest_time) ==
            IF j > Len(sch.times) THEN nearest_time
            ELSE IF sch.times[j] \notin 0..1439 THEN Near(j + 1, nearest_time)
            ELSE IF nearest_time = Absent
                    \/ Dist(sch.times[j]) <= Dist(nearest_time)
                 THEN Near(j + 1, sch.times[j])
                 ELSE Near(j + 1, nearest_time)
        found == Near(1, Absent)
    IN  IF found # Absent THEN found
        ELSE IF sch.times # << >> THEN sch.times[1] ELSE Absent

\* _get_nearest_scheduled_time(schedule, current_time).  A time outside
\* 0..1439 stands for a string that strptime rejects (ValueError:
\* continue); Absent is None.
GetNearestScheduledTime(sch, tod) ==
    LET Dist(t) == IF t > tod THEN t - tod ELSE tod - t
        RECURSIVE Near(_, _)
        Near(j, nearest_time) ==
            IF j > Len(sch.times) THEN nearest_time
            ELSE IF sch.times[j] \notin 0..1439 THEN Near(j + 1, nearest_time)
            ELSE IF nearest_time = Absent
                    \/ Dist(sch.times[j]) < Dist(nearest_time)
                 THEN Near(j + 1, sch.times[j])
                 ELSE Near(j + 1, nearest_time)
        found == Near(1, Absent)
    IN  IF found # Absent THEN found
        ELSE IF sch.times # << >> THEN sch.times[1] ELSE Absent

\* _determine_medication_status that tells a dose more than an hour off
\* from the others.
DetermineMedicationStatusLate(sch, tod) ==
    LET t == GetNearestScheduledTime(sch, tod)
        time_diff == IF t > tod THEN t - tod ELSE tod - t
    IN  IF t \notin 0..1439 THEN "taken"
        ELSE IF time_diff <= 15 THEN "taken"
        ELSE IF time_diff <= 60 THEN "taken"
        ELSE "missed"

\* _determine_medication_status: every branch returns TAKEN.
DetermineMedicationStatus(sch, tod) ==
    LET t == GetNearestScheduledTime(sch, tod)
        time_diff == IF t > tod THEN t - tod ELSE tod - t
    IN  IF t \notin 0..1439 THEN "taken"
        ELSE IF time_diff <= 15 THEN "taken"
        ELSE IF time_diff <= 60 THEN "taken"
        ELSE "taken"

\* process_sensor_data(compartment_id = c, opened_time = opened) at time
\* at: the rows afterwards.  opened is Absent for None.
ProcessSensorData(st, c, opened, at) ==
    LET act == GetActiveSchedules
        hits == { i \in 1..Len(act) : act[i].med = c }
    IN  IF hits = {} THEN st
        ELSE LET target == act[CHOOSE i \in hits : \A j \in hits : i <= j]
             IN  Append(st, [sched |-> target.id,
                             time |-> GetNearestScheduledTime(target, at.tod),
                             day |-> at.day,
                             status |-> DetermineMedicationStatus(target,
                                                                  at.tod),
                             confirmed |-> TRUE,
                             actual |-> IF opened = Absent THEN at.tod
                                        ELSE opened])

\* check_missed_medications at time at: the rows afterwards and the count
\* returned.
CheckMissedMedications(st, at) ==
    LET act == GetActiveSchedules
        RECURSIVE Walk(_, _, _, _)
        Walk(i, j, rows, missed_count) ==
            IF i > Len(act) THEN [store |-> rows, count |-> missed_count]
            ELSE IF j > Len(act[i].times) THEN Walk(i + 1, 1, rows, missed_count)
            ELSE LET t == act[i].times[j]
                 IN  IF /\ t \in 0..1439     \* else ValueError: continue
                        /\ at.tod > t + 1
                        /\ ~HasRecentRecord(rows, act[i].id, t, at.day)
                     THEN Walk(i, j + 1,
                               Append(rows, [sched |-> act[i].id, time |-> t,
                                             day |-> at.day,
                                             status |-> "missed",
                                             confirmed |-> FALSE,
                                             actual |-> Absent]),
                               missed_count + 1)
                     ELSE Walk(i, j + 1, rows, missed_count)
    IN  Walk(1, 1, st, 0)

\* what the steps of the recorder leave alone
medFrame == << commVars, discVars, ctorVars, f_call, f_ret, cbVars >>

\* The program starts on a new database file.
StartFresh ==
    /\ m_last = "off"
    /\ m_last' = "load"
    /\ UNCHANGED << store, now, m_ret, m_sweeps, m_sensors, medFrame >>

\* The program starts on the database file that an earlier run of this day
\* left: at 08:02 it called check_missed_medications and then
\* process_sensor_data for k openings of compartment 1.
StartOnDb(k) ==
    LET before == [day |-> now.day, tod |-> 482]
        swept == CheckMissedMedications(<< >>, before).store
        \* the row process_sensor_data appends, which does not depend on
        \* the rows present
        opened == ProcessSensorData(<< >>, 1, Absent, before)
    IN  /\ m_last = "off"
        /\ store' = swept \o [i \in 1..k |-> opened[1]]
        /\ m_last' = "load"
        /\ UNCHANGED << now, m_ret, m_sweeps, m_sensors, medFrame >>

\* Time passes: 08:01, 08:10, 20:02 and 23:59 of each day.
Tick ==
    /\ m_last # "off"
    /\ \/ now.tod = 481 /\ now' = [now EXCEPT !.tod = 490]
       \/ now.tod = 490 /\ now' = [now EXCEPT !.tod = 1202]
       \/ now.tod = 1202 /\ now' = [now EXCEPT !.tod = 1439]
       \/ /\ now.tod = 1439
          /\ now.day < MaxDays
          /\ now' = [day |-> now.day + 1, tod |-> 481]
    /\ m_last' = "tick"
    /\ UNCHANGED << store, m_ret, m_sweeps, m_sensors, medFrame >>

\* process_sensor_data(c, opened_time): the opening is reported with no
\* time or as of 08:05.  m_last tells whether a row was created or time
\* passed since the last check_missed_medications; m_ret is the place of
\* the record returned, Absent for None.
Sensor(c) ==
    /\ m_last # "off"
    /\ m_sensors < MaxSensors
    /\ m_sensors' = m_sensors + 1
    /\ \E opened \in {Absent, 485} :
          store' = ProcessSensorData(store, c, opened, now)
    /\ m_last' = IF store' = store THEN m_last ELSE "sensor"
    /\ m_ret' = IF store' = store THEN Absent ELSE Len(store')
    /\ UNCHANGED << now, m_sweeps, medFrame >>

\* check_missed_medications()
Sweep ==
    /\ m_last # "off"
    /\ m_sweeps < MaxSweeps
    /\ m_sweeps' = m_sweeps + 1
    /\ store' = CheckMissedMedications(store, now).store
    /\ m_ret' = CheckMissedMedications(store, now).count
    /\ m_last' = "sweep"
    /\ UNCHANGED << now, m_sensors, medFrame >>

(***************************************************************************)
(* SpecMed: the recorder over one or two days.                             *)
(***************************************************************************)
NextMed ==
    \/ StartFresh
    \/ \E k \in {0} \cup ((RecentLimit - 3)..(RecentLimit - 1)) : StartOnDb(k)
    \/ Tick
    \/ \E c \in {0, 1, 3, 7} : Sensor(c)
    \/ Sweep

SpecMed == Init /\ [][NextMed]_vars

(***************************************************************************)
(* SpecCalc: calls of the functions of the recorder that only compute.     *)
(***************************************************************************)
\* _get_nearest_scheduled_time(schedule, t) for a schedule with the times
\* ts and t at tod.
NearestCall(ts, tod) ==
    /\ f_call' = << "_get_nearest_scheduled_time", ts, tod >>
    /\ f_ret' = GetNearestScheduledTime([times |-> ts], tod)
    /\ UNCHANGED << commVars, discVars, ctorVars, medVars, cbVars >>

\* get_medication_adherence_rate(days) on the rows st on the day today:
\* the quotient returned as << numerator, denominator >>.
GetMedicationAdherenceRate(st, days, today) ==
    LET n == Len(st)
        lo == IF n > RateLimit THEN n - RateLimit + 1 ELSE 1
        recent_records == { i \in lo..n : st[i].day >= today - days }
        taken_count ==
            Cardinality({ i \in recent_records : st[i].status = "taken" })
        total_count == Cardinality(recent_records)
    IN  IF recent_records = {} THEN << 0, 1 >>
        ELSE << taken_count * 100, total_count >>

\* get_medication_adherence_rate(days) on a table that holds, oldest
\* first, old rows of sensor events of eight days ago, missed rows of a
\* sweep of today and taken rows of sensor events of today.
AdherenceCall(old, missed, taken, days) ==
    LET before == [day |-> now.day - 8, tod |-> now.tod]
        o == ProcessSensorData(<< >>, 1, Absent, before)[1]
        m == CheckMissedMedications(<< >>, now).store[1]
        t == ProcessSensorData(<< >>, 1, Absent, now)[1]
        rows == [i \in 1..old |-> o] \o [i \in 1..missed |-> m]
                    \o [i \in 1..taken |-> t]
    IN  /\ f_call' = << "get_medication_adherence_rate", rows, days >>
        /\ f_ret' = GetMedicationAdherenceRate(rows, days, now.day)
        /\ UNCHANGED << commVars, discVars, ctorVars, medVars, cbVars >>

NextCalc ==
    \/ \E old \in 0..1, missed \in 0..1,
          taken \in {0, 3, RateLimit - 1, RateLimit}, days \in {7, 8} :
            AdherenceCall(old, missed, taken, days)
    \/ \E ts \in UNION { [1..n -> {470, 490, 1500}] : n \in 0..MaxTimes },
          tod \in {460, 480, 500} : NearestCall(ts, tod)

SpecCalc == Init /\ [][NextCalc]_vars

(***************************************************************************)
(* SpecTimer: the recorder under missed_check_timer of SimpleMainWindow    *)
(* (src/simple_main.py), which calls check_missed_medications once a       *)
(* minute: no instant passes without a call.                               *)
(***************************************************************************)
\* missed_check_timer fires.
TimerSweep ==
    /\ m_last \notin {"off", "sweep"}
    /\ m_sweeps' = m_sweeps + 1
    /\ store' = CheckMissedMedications(store, now).store
    /\ m_ret' = CheckMissedMedications(store, now).count
    /\ m_last' = "sweep"
    /\ UNCHANGED << now, m_sensors, medFrame >>

\* Time passes after the timer fired.
TimerTick == m_last = "sweep" /\ Tick

NextTimer ==
    \/ StartFresh
    \/ TimerSweep
    \/ TimerTick
    \/ \E c \in {0, 1, 3, 7} : Sensor(c)

SpecTimer == Init /\ [][NextTimer]_vars

(***************************************************************************)
(* SpecEvent: the main window (simple_main.py).  The device reports box 1  *)
(* opened, the receive loop queues the event, the 100 ms timer drains the  *)
(* queue into handle_pillbox_status, which writes a line of text, and the  *)
(* one-minute timer calls check_missed_medications.  No statement of the   *)
(* program calls process_sensor_data, so no action here does.              *)
(***************************************************************************)
NextEvent ==
    \/ ConnectCall /\ nsock = 0
    \/ ConnectOk
    \/ DevPush(BoxEvent)
    \/ DeliverAll
    \/ \E t \in Threads : FrameListener(t)
    \/ DrainCall
    \/ DrainStep
    \/ StartFresh
    \/ Sweep

SpecEvent == Init /\ [][NextEvent]_vars /\ WF_vars(NextEvent)


(***************************************************************************)
(*                               Claims                                    *)
(***************************************************************************)
SscReturned == cpc = "idle" /\ last_call.op = "send_schedule_config"

\* C1 (as claimed): when the device's reply to the SET_SCHEDULE command
\* reaches the socket while send_schedule_config is waiting for it, the
\* receive loop does not read it away: the call never returns TIMEOUT for a
\* reply that arrived in time.
C1_NoTimeoutForReplyInTime ==
    (SscReturned /\ reply_seen) => last_call.ret.status # "TIMEOUT"

\* C2 (as claimed): the response send_schedule_config returns is the reply
\* to that very command, never a line the device pushed and never the reply
\* to an earlier command.
C2_ResponseIsOwnReply ==
    (SscReturned /\ last_call.ret.status = "RESPONSE") =>
        last_call.ret.msg = Reply(ncmd)

\* C3: every item put on message_queue is taken by the consumer exactly once
\* and in the order it was put: what was put is what was taken followed by
\* what is still queued.
C3_QueueFifoExactlyOnce == put_log = taken_log \o message_queue

C3_Witness ==
    /\ Len(taken_log) = 2
    /\ taken_log[1] # taken_log[2]
    /\ message_queue = << >>


\* The texts of the non-empty lines among ls, in order.
RECURSIVE Texts(_)
Texts(ls) ==
    IF ls = << >> THEN << >>
    ELSE (IF Head(ls).form = "empty" THEN << >> ELSE << Text(Head(ls)) >>)
         \o Texts(Tail(ls))

\* Every byte the device wrote has been read and framed.
Quiescent ==
    /\ nsock > 0
    /\ net = << >>
    /\ socks[nsock].rx = << >>
    /\ \A t \in Threads : th[t].pc \in {"off", "loop", "recv", "wait"}

\* C4 (as claimed): however the bytes of the device's lines are split across
\* the reads of the receive loop, each line is handed to the dispatcher
\* exactly once and in order: once everything written has been read, the
\* lines dispatched are the lines written.
C4_EveryLineDispatchedOnce == Quiescent => disp_log = Texts(dev_lines)

\* A step of the inner while of _listen_loop that frames one line.
FrameStep ==
    /\ \E t \in Threads : th[t].pc = "frame"
    /\ HasNL(recv_buffer)
    /\ recv_buffer' = SplitRest(recv_buffer)

\* A line that is not JSON, is no object, has no type or an unknown type.
Undispatched(text) ==
    LET v == JsonLoads(Strip(text))
    IN  v = NoMsg \/ v.form # "obj" \/ v.type \notin KnownTypes

\* C5: a line that is not valid JSON, has no type field or has an unknown
\* type puts nothing on the queue, leaves welcome_info, device_boxes and
\* last_status unchanged and does not end or break the receive loop: the
\* loop stays connected and listening and goes on with the next line of the
\* buffer (or with the next read when the buffer holds no further line).
C5_BadLineIsIgnored ==
    [][ (FrameStep /\ Undispatched(SplitHead(recv_buffer))) =>
            /\ UNCHANGED << message_queue, put_log, welcome_info, device_boxes,
                            last_status, is_connected, is_listening >>
            /\ \A t \in Threads :
                  th[t].pc = "frame" =>
                     th'[t].pc = IF HasNL(recv_buffer') THEN "frame" ELSE "loop"
      ]_vars

\* A bad line was framed first and the typed line after it was dispatched.
C5_Witness ==
    /\ Len(dev_lines) = 2
    /\ dev_lines[1] \in {Garbage, Typeless, UnknownType, Scalar}
    /\ dev_lines[2] = Status
    /\ disp_log = Texts(dev_lines)
    /\ put_log = << Item("status", 1) >>


Returned(op) == cpc = "idle" /\ last_call.op = op

\* C6 (as claimed): after every connect() that returned true, a receive
\* loop is running for the session as long as the session is connected.
C6_ConnectedHasReceiveLoop ==
    (Returned("connect") /\ last_call.ret = True /\ is_connected) =>
        \E t \in Threads : ThreadAlive(t)

\* The state of the session of section 4.2.
SessionState ==
    IF is_connected THEN "Connected"
    ELSE IF cpc = "connecting" THEN "Connecting" ELSE "Disconnected"

SessionMoves ==
    { << "Disconnected", "Connecting" >>, << "Connecting", "Connected" >>,
      << "Connecting", "Disconnected" >>, << "Connected", "Disconnected" >> }

\* C7 (as claimed): the session state moves only along Disconnected ->
\* Connecting -> Connected -> Disconnected; a connect() that fails returns
\* false and leaves the session Disconnected; no step other than the return
\* of a successful connect() makes the session Connected.
C7_SessionStateMachine ==
    [][ /\ SessionState' # SessionState =>
              << SessionState, SessionState' >> \in SessionMoves
        /\ (cpc = "connecting" /\ cpc' = "idle" /\ last_call'.ret = False) =>
              SessionState' = "Disconnected"
        /\ (~is_connected /\ is_connected') =>
              cpc = "connecting" /\ cpc' = "idle" /\ last_call'.ret = True
      ]_vars

\* A step of disconnect() on the foreground thread.
DisconnectStep ==
    \/ cpc = "idle" /\ cpc' = "joining"
    \/ cpc = "joining" /\ cpc' = "closing"
    \/ cpc = "closing" /\ cpc' = "idle"

C9_NoLoopAfterDisconnect ==
    Returned("disconnect") =>
        /\ socket = 0
        /\ \A t \in Threads : ~ThreadAlive(t)

\* The step on which send_schedule_config returns: at once (the guard, no
\* active schedule, a failed send) or from its recv.
SscReturn ==
    /\ cpc' = "idle"
    /\ last_call'.op = "send_schedule_config"
    /\ cpc = "s_wait" \/ (cpc = "idle" /\ nops' = nops + 1)

\* C10: send_schedule_config always returns a result with a status: ERROR
\* when the session is not connected, TIMEOUT exactly when nothing arrived
\* within the wait, ERROR when what arrived is not one JSON text, and else
\* the parsed response; TIMEOUT is never reported as ERROR nor ERROR as
\* TIMEOUT.
C10_StructuredResult ==
    [][ SscReturn =>
          LET r == last_call'.ret
              data == socks[socket].rx
          IN  /\ r.status \in {"TIMEOUT", "ERROR", "RESPONSE"}
              /\ (~is_connected \/ socket = 0) => r.status = "ERROR"
              /\ cpc = "idle" => r.status = "ERROR"
              /\ cpc = "s_wait" =>
                    /\ (r.status = "TIMEOUT") <=>
                          (data = << >> /\ socks[socket].peer = "up")
                    /\ (r.status = "RESPONSE") <=>
                          (data # << >> /\ Parsed(data) # NoMsg)
                    /\ r.status = "RESPONSE" => r.msg = Parsed(data)
                    /\ (data # << >> /\ Parsed(data) = NoMsg) => r.status = "ERROR"
      ]_vars

\* The call returned TIMEOUT after the command had been written.
C10_Witness ==
    /\ Returned("send_schedule_config")
    /\ last_call.ret.status = "TIMEOUT"
    /\ ncmd > 0


\* C11 (as claimed): _send_json returns true only when the whole
\* newline-terminated object was handed to the transport; when it returns
\* false nothing was written and the session is not Connected (it was not,
\* or the failed write made it Disconnected); it returns without waiting for
\* a response.
C11_FireAndForgetSend ==
    Returned("_send_json") =>
        /\ last_call.ret \in {True, False}
        /\ last_call.ret = True => wire_out = "whole"
        /\ last_call.ret = False =>
              wire_out = "none" /\ (~is_connected \/ socket = 0)


\* send_schedule_config is about to meet a socket error: in its send (the
\* socket is not connected or the peer has reset) or in its recv (reset).
SscSocketError ==
    \/ cpc = "idle" /\ is_connected /\ socket # 0 /\ SendFails(socket)
    \/ cpc = "s_wait" /\ socks[socket].rx = << >> /\ socks[socket].peer = "rst"

\* C12 (as claimed): when send_schedule_config meets a socket error while it
\* writes the command or reads the response, the session is Disconnected
\* when the call returns.
C12_CommandSocketErrorDisconnects ==
    [][ (SscReturn /\ SscSocketError /\ last_call'.ret.why = "exception") =>
            ~is_connected'
      ]_vars


\* C13 (as claimed): at most one send_schedule_config call per session is
\* between writing its command and receiving its response: a call made
\* while another is in flight does not write its command.
C13_OneCommandInFlight == ~(cpc \in {"s_recv", "s_wait"} /\ bpc = "s_wait")


\* No attempt so far met a reply or a socket error.
NoResponder == \A i \in 1..Len(d_log) : d_log[i].kind = "timeout"

\* C14: with no responder, discover_with_retry(max_retries) sends exactly
\* max_retries broadcasts with one sleep between consecutive attempts and
\* none after the last (max_retries - 1 sleeps), returns (None, None), and
\* it terminates, for every max_retries >= 1.
C14_NoResponderRetries ==
    /\ [](NoResponder =>
            /\ d_pc = "attempt" => d_bcasts = d_attempt - 1 /\ d_sleeps = d_attempt - 1
            /\ d_pc = "sleep" => d_bcasts = d_attempt /\ d_sleeps = d_attempt - 1
            /\ d_pc = "done" =>
                  /\ d_bcasts = d_max
                  /\ d_sleeps = d_max - 1
                  /\ d_result = NotFound)
    /\ (d_pc = "attempt") ~> (d_pc = "done")

\* Three attempts went unanswered.
C14_Witness ==
    /\ d_pc = "done"
    /\ NoResponder
    /\ d_max = 3
    /\ d_bcasts = 3


\* A reply that does not decode, is not JSON, is no object, or does not name
\* the device kind ESP32-Pillbox.
Malformed(r) == DiscoverParse(r) # "ok" \/ r.device # "ESP32-Pillbox"

\* C15: a malformed reply is treated as no reply for its attempt: the
\* attempt yields no address, discover() returns (nothing is raised), and
\* the loop goes on to the next attempt when attempts remain, else ends
\* with (None, None).
C15_MalformedReplyIsNoReply ==
    [][ \A r \in Replies :
          (d_pc = "attempt" /\ d_log' = Append(d_log, Met("reply", r))
              /\ Malformed(r)) =>
            /\ d_result' = NotFound
            /\ d_pc' = IF d_attempt < d_max THEN "sleep" ELSE "done"
      ]_vars

\* An undecodable reply in the first attempt, the device found in the second.
C15_Witness ==
    /\ d_log = << Met("reply", BadBytes), Met("reply", Pillbox) >>
    /\ d_bcasts = 2
    /\ d_result.ip = 1

\* C16 (as claimed): a socket-level error in an attempt ends discovery: it
\* is the last attempt made, whatever number of retries remains, and the
\* result is (None, None).
C16_SocketErrorAborts ==
    \A i \in 1..Len(d_log) :
        d_log[i].kind = "sockerr" =>
            /\ i = Len(d_log)
            /\ d_pc = "done"
            /\ d_result = NotFound


\* The address a reply of the right kind names.
AddressOf(r) == [ip |-> r.ip, port |-> IF r.port = 0 THEN DefaultPort ELSE r.port]

\* Attempt i met a reply that identifies the device kind ESP32-Pillbox.
MetRightKind(i) == d_log[i].kind = "reply" /\ ~Malformed(d_log[i].reply)

\* Attempt i met such a reply and it carries an ip.
MetAddressed(i) == MetRightKind(i) /\ d_log[i].reply.ip # 0

\* C17 (as claimed): discovery stops at the first reply that identifies the
\* device kind ESP32-Pillbox, with no further broadcast, and returns that
\* reply's ip and port (8080 when it has none); an address is returned from
\* no other reply.
C17_StopsAtFirstPillboxReply ==
    /\ \A i \in 1..Len(d_log) :
          MetRightKind(i) =>
              /\ i = Len(d_log)
              /\ d_pc = "done"
              /\ d_result = AddressOf(d_log[i].reply)
    /\ d_result # NotFound =>
          Len(d_log) > 0 /\ MetRightKind(Len(d_log))

\* C17 (amended): discovery stops at the first reply that identifies the
\* device kind ESP32-Pillbox and carries an ip, with no further broadcast,
\* and returns that reply's ip and port (8080 when it has none); an address
\* is returned from no other reply.  A reply of that kind without an ip is
\* treated as no reply for its attempt.
C17_AddressOnlyFromPillboxReply ==
    /\ \A i \in 1..Len(d_log) :
          MetAddressed(i) =>
              /\ i = Len(d_log)
              /\ d_pc = "done"
              /\ d_result = AddressOf(d_log[i].reply)
    /\ d_result # NotFound =>
          Len(d_log) > 0 /\ MetAddressed(Len(d_log))

\* Another device answered the first attempt, the pillbox (naming no port)
\* the second.
C17_Witness ==
    /\ d_log = << Met("reply", OtherDevice), Met("reply", PillboxNoPort) >>
    /\ d_pc = "done"
    /\ d_result = [ip |-> 1, port |-> DefaultPort]
    /\ d_bcasts = 2

\* A communicator was constructed with no address and auto-discovery on.
AutoBuilt == k_pc = "built" /\ k_args.ip = 0 /\ k_args.auto

C19_SecondSweepCreatesNothing ==
    [][ (m_last = "sweep" /\ m_sweeps' = m_sweeps + 1) =>
            (m_ret' = 0 /\ store' = store) ]_vars

\* C20: the table holds at most one MISSED row for each schedule,
\* scheduled time and day.
C20_OneMissedPerDose ==
    \A i, j \in 1..Len(store) :
        (/\ i < j
         /\ store[i].status = "missed"
         /\ store[j].status = "missed"
         /\ store[i].sched = store[j].sched
         /\ store[i].time = store[j].time) => store[i].day # store[j].day

\* C21: one check_missed_medications call appends exactly one MISSED row,
\* not sensor-confirmed and without actual time, for each pair of an active
\* schedule and one of its times that is past the 1-minute grace and has no
\* row of today in the table; it appends no other row and returns the
\* number of rows it appended.
C21_SweepCreatesExactlyTheMissed ==
    [][ (m_sweeps' = m_sweeps + 1) =>
          LET n == Len(store)
              added == SubSeq(store', n + 1, Len(store'))
              Has(rows, sid, t) ==
                  \E i \in 1..Len(rows) : /\ rows[i].sched = sid
                                          /\ rows[i].time = t
                                          /\ rows[i].day = now.day
          IN  /\ SubSeq(store', 1, n) = store
              /\ m_ret' = Len(added)
              /\ \A i \in 1..Len(added) :
                    /\ added[i].status = "missed"
                    /\ ~added[i].confirmed
                    /\ added[i].actual = Absent
                    /\ added[i].day = now.day
                    /\ \A j \in 1..Len(added) :
                          (added[j].sched = added[i].sched
                             /\ added[j].time = added[i].time) => j = i
              /\ \A k \in 1..Len(Schedules) :
                    \A x \in 1..Len(Schedules[k].times) :
                        LET t == Schedules[k].times[x]
                        IN  Has(added, Schedules[k].id, t) <=>
                              (/\ Schedules[k].active
                               /\ t \in 0..1439
                               /\ now.tod > t + 1
                               /\ ~Has(store, Schedules[k].id, t)) ]_vars

\* C22: with check_missed_medications called once a minute, every dose of
\* an active schedule (a time of day from 00:00 to 23:59) of a day that is
\* over, for which no sensor event was recorded, has a MISSED row of that
\* day.
C22_UntakenDoseRecordedMissed ==
    \A k \in 1..Len(Schedules) : \A x \in 1..Len(Schedules[k].times) :
        \A d \in 1..MaxDays :
            LET Row(status) ==
                    \E i \in 1..Len(store) :
                        /\ store[i].sched = Schedules[k].id
                        /\ store[i].time = Schedules[k].times[x]
                        /\ store[i].day = d
                        /\ store[i].status = status
            IN  (/\ Schedules[k].active
                 /\ Schedules[k].times[x] \in 0..1439
                 /\ d < now.day
                 /\ ~Row("taken")) => Row("missed")

\* C23: a row created by process_sensor_data(compartment, opened_time) has
\* as scheduled time the time of its schedule nearest to opened_time,
\* whatever the time at which the call is made, with status TAKEN and
\* sensor-confirmed.
C23_NearestToOpenedTime ==
    \A i \in 1..Len(store) :
        store[i].confirmed =>
            /\ store[i].status = "taken"
            /\ \A k \in 1..Len(Schedules) :
                  Schedules[k].id = store[i].sched =>
                      store[i].time =
                          GetNearestScheduledTime(Schedules[k], store[i].actual)

\* C24: _get_nearest_scheduled_time returns a time of the schedule at the
\* least distance from the time of day given among the times that parse,
\* the first of them in the list when several are at that distance; it
\* returns None only for an empty list.
C24_NearestFirstOnTie ==
    f_call[1] = "_get_nearest_scheduled_time" =>
        LET ts == f_call[2]
            tod == f_call[3]
            Dist(t) == IF t > tod THEN t - tod ELSE tod - t
            ok == { j \in 1..Len(ts) : ts[j] \in 0..1439 }
        IN  /\ f_ret = Absent <=> ts = << >>
            /\ f_ret # Absent => \E j \in 1..Len(ts) : f_ret = ts[j]
            /\ ok # {} =>
                  \E j \in ok :
                      /\ f_ret = ts[j]
                      /\ \A m \in ok : Dist(ts[j]) <= Dist(ts[m])
                      /\ \A m \in ok : Dist(ts[m]) = Dist(ts[j]) => j <= m

\* 08:00 asked of the list 25:00, 08:10, 07:50: the two times that parse
\* are ten minutes away and the first of them is returned.
C24_Witness ==
    /\ f_call = << "_get_nearest_scheduled_time", << 1500, 490, 470 >>, 480 >>
    /\ f_ret = 490

\* C25: process_sensor_data for a compartment whose medication has no
\* active schedule returns no record and leaves the table as it is; for a
\* medication with an active schedule it appends one row, of an active
\* schedule of that medication, and returns it.
C25_NoScheduleNoRecord ==
    [][ \A c \in {0, 1, 3, 7} :
          Sensor(c) =>
              IF \E k \in 1..Len(Schedules) :
                     Schedules[k].active /\ Schedules[k].med = c
              THEN /\ Len(store') = Len(store) + 1
                   /\ SubSeq(store', 1, Len(store)) = store
                   /\ m_ret' = Len(store')
                   /\ \E k \in 1..Len(Schedules) :
                         /\ Schedules[k].active
                         /\ Schedules[k].med = c
                         /\ Schedules[k].id = store'[Len(store')].sched
              ELSE store' = store /\ m_ret' = Absent ]_vars

\* A compartment without active schedule was opened on an empty table.
C25_Witness ==
    /\ m_sensors = 1
    /\ m_ret = Absent
    /\ store = << >>

\* C26: every row that process_sensor_data creates is TAKEN,
\* sensor-confirmed and has an actual time, however far it is from the
\* scheduled time; every row that check_missed_medications creates is
\* MISSED, not sensor-confirmed and has no actual time.
C26_ConfirmedIffFromSensor ==
    [][ \A i \in (Len(store) + 1)..Len(store') :
          /\ m_sensors' = m_sensors + 1 =>
                /\ store'[i].status = "taken"
                /\ store'[i].confirmed
                /\ store'[i].actual # Absent
          /\ m_sweeps' = m_sweeps + 1 =>
                /\ store'[i].status = "missed"
                /\ ~store'[i].confirmed
                /\ store'[i].actual = Absent ]_vars

\* The table holds a row of a sweep and a row of a compartment opened more
\* than an hour after the scheduled time.
C26_Witness ==
    \E i, j \in 1..Len(store) :
        /\ store[i].confirmed
        /\ store[i].status = "taken"
        /\ store[i].actual - store[i].time > 60
        /\ store[j].status = "missed"
        /\ ~store[j].confirmed

\* C27: get_medication_adherence_rate(days) returns 100 times the number
\* of TAKEN rows over the number of all rows, counted over all rows created
\* in the last days days, and 0 when there is no such row; the result lies
\* between 0 and 100.
C27_AdherenceOverWindow ==
    f_call[1] = "get_medication_adherence_rate" =>
        LET rows == f_call[2]
            window == { i \in 1..Len(rows) : rows[i].day >= now.day - f_call[3] }
            taken == { i \in window : rows[i].status = "taken" }
        IN  /\ window = {} => f_ret = << 0, 1 >>
            /\ f_ret[2] > 0
            /\ f_ret[1] * Cardinality(window)
                   = 100 * Cardinality(taken) * f_ret[2]
            /\ 0 <= f_ret[1] /\ f_ret[1] <= 100 * f_ret[2]

\* The entries a SET_SCHEDULE command must carry for a list of schedules:
\* one for each active schedule, in the order of the list, with the notes
\* cut after their first 100 characters.
EntriesOf(schedules, meds) ==
    LET active == { i \in 1..Len(schedules) : schedules[i].is_active }
    IN  /\ Len(meds) = Cardinality(active)
        /\ \E f \in [1..Len(meds) -> active] :
              /\ \A j, k \in 1..Len(meds) : j < k => f[j] < f[k]
              /\ \A j \in 1..Len(meds) :
                    LET n == schedules[f[j]].notes
                    IN  /\ meds[j].medication_id = schedules[f[j]].medication_id
                        /\ Len(meds[j].notes) = IF Len(n) <= 100 THEN Len(n) ELSE 100
                        /\ \A c \in 1..Len(meds[j].notes) : meds[j].notes[c] = n[c]

\* C28 (as claimed): the SET_SCHEDULE command written by
\* send_schedule_config carries exactly one medication entry for each active
\* schedule of its input, in input order, and none for an inactive one; the
\* notes of an entry are the first 100 characters of the schedule's notes;
\* and the command is written whole or not at all.
C28_ScheduleCommandWhole ==
    [][ \A schedules \in ScheduleLists :
            SscCall(schedules) =>
                /\ wire_out' \in {"whole", "none"}
                /\ wire_out' # "none" => EntriesOf(schedules, cloc'.meds) ]_vars

\* The part of C28 about the content of the command alone.
C28_EntriesOfActiveSchedules ==
    [][ \A schedules \in ScheduleLists :
            SscCall(schedules) /\ wire_out' # "none" =>
                EntriesOf(schedules, cloc'.meds) ]_vars

\* C29: send_schedule_config with a list that holds no active schedule (an
\* empty list, or inactive schedules only) returns an ERROR status at once:
\* it writes nothing and waits for no response; and no command it writes
\* has an empty medications list.
C29_NoActiveNoCommand ==
    [][ \A schedules \in ScheduleLists :
            SscCall(schedules) =>
                /\ (\A i \in 1..Len(schedules) : ~schedules[i].is_active) =>
                      /\ cpc' = "idle"
                      /\ last_call'.op = "send_schedule_config"
                      /\ last_call'.ret.status = "ERROR"
                      /\ wire_out' = "none"
                      /\ dev_inbox' = dev_inbox
                      /\ socks' = socks
                /\ wire_out' # "none" => cloc'.meds # << >> ]_vars

\* On a connection, a call with no active schedule has returned its error
\* with nothing written.
C29_Witness ==
    /\ is_connected
    /\ socket # 0
    /\ Returned("send_schedule_config")
    /\ last_call.ret.why = "no_active"
    /\ last_call.ret.status = "ERROR"
    /\ wire_out = "none"
    /\ dev_inbox = << >>

C31_CallbackForEveryMessage ==
    LET owed(cb, i) ==
            /\ \E k \in 1..Len(cb_log) :
                  cb_log[k].ev = "add" /\ cb_log[k].cb = cb /\ cb_log[k].at < i
            /\ JsonLoads(disp_log[i]).type \in {"welcome", "box_event", "status"}
            /\ \A k \in 1..Len(cb_log) :
                  cb_log[k] # [ev |-> "call", cb |-> cb, at |-> i]
    IN  (\E cb \in 1..MaxCallbacks : \E i \in 1..Len(disp_log) : owed(cb, i))
           ~> (\A cb \in 1..MaxCallbacks : \A i \in 1..Len(disp_log) : ~owed(cb, i))

\* C32 (as claimed): every box_event that reports a compartment opened,
\* for a compartment whose medication has an active schedule, eventually
\* leads to a TAKEN record with sensor_confirmed true of a schedule of that
\* medication in the store.
C32_OpenedBoxRecordedTaken ==
    (\E i \in 1..Len(disp_log) :
        /\ JsonLoads(disp_log[i]).type = "box_event"
        /\ \E k \in 1..Len(GetActiveSchedules) :
              GetActiveSchedules[k].med = JsonLoads(disp_log[i]).val)
    ~> (\E r \in 1..Len(store) :
            /\ store[r].status = "taken"
            /\ store[r].confirmed
            /\ \E k \in 1..Len(GetActiveSchedules) :
                  /\ GetActiveSchedules[k].id = store[r].sched
                  /\ GetActiveSchedules[k].med = BoxEvent.val)

\* C33: every record that process_sensor_data or check_missed_medications
\* creates references a schedule that exists and is active when the record
\* is created.
C33_RecordOfActiveSchedule ==
    [][ \A i \in (Len(store) + 1)..Len(store') :
            \E k \in 1..Len(Schedules) :
                /\ Schedules[k].id = store'[i].sched
                /\ Schedules[k].active ]_vars

\* Both creators have run, process_sensor_data more than once, and each
\* has left a row, of different schedules.
C33_Witness ==
    /\ m_sweeps > 0
    /\ m_sensors > 1
    /\ \E i, j \in 1..Len(store) :
          /\ store[i].status = "missed" /\ ~store[i].confirmed
          /\ store[j].status = "taken" /\ store[j].confirmed
          /\ store[i].sched # store[j].sched

\* C34 (as claimed): every line dispatched whose type is welcome, status,
\* box_event or compartment_status puts exactly one (type, payload) item on
\* message_queue, whatever its other fields hold: the items put are, in
\* order, one for each such line.
C34_OneItemPerTypedLine ==
    LET typed == SelectSeq(disp_log,
                    LAMBDA text : /\ JsonLoads(text) # NoMsg
                                  /\ JsonLoads(text).form = "obj"
                                  /\ JsonLoads(text).type \in KnownTypes)
    IN  /\ Len(put_log) = Len(typed)
        /\ \A i \in 1..Len(put_log) :
              put_log[i] = Item(JsonLoads(typed[i]).type, JsonLoads(typed[i]).val)

\* C35 (as claimed): a typed message the device pushes while
\* send_schedule_config waits for its reply is left to the receive loop:
\* what the command's own recv takes from the socket holds no byte of a
\* line of type welcome, status, box_event or compartment_status.
C35_PushedLineLeftToLoop ==
    [][ (cpc = "s_wait" /\ cpc' = "idle") =>
            \A k \in 1..Len(socks[socket].rx) :
                socks[socket].rx[k][2].type \notin KnownTypes ]_vars

\* C36 (as claimed): send_schedule_config returns TIMEOUT only after its
\* recv has waited the full 5 seconds, under every interleaving with the
\* receive loop: the timeout the loop sets on the shared socket never
\* shortens the command's wait.
C36_CommandWaitsFullBound ==
    [][ (cpc = "s_wait" /\ cpc' = "idle" /\ last_call'.ret.status = "TIMEOUT") =>
            cloc.tmo = CmdTimeout ]_vars

\* C37 (as claimed): a line dispatched on a connection is a line the device
\* sent, exactly as it sent it, also after the session was disconnected or
\* broken and connected again: what an earlier connection left in the
\* receive buffer is never put in front of it.
C37_LineAsSentAfterReconnect ==
    \A i \in 1..Len(disp_log) :
        \E k \in 1..Len(dev_lines) : disp_log[i] = Text(dev_lines[k])

\* C38 (as claimed): when the device has closed the connection in an
\* orderly way (recv returns no bytes), the session eventually becomes
\* Disconnected and the receive loop ends.
C38_OrderlyCloseDisconnects ==
    (socket # 0 /\ is_connected /\ socks[socket].peer = "fin")
        ~> (~is_connected /\ \A t \in Threads : ~ThreadAlive(t))

\* C39 (as claimed): for one dose (schedule, scheduled time, day) the store
\* never holds both a MISSED and a TAKEN record, and a record stored is
\* never changed: the store only grows at its end.
C39_NotMissedAndTaken ==
    /\ [] ( \A i, j \in 1..Len(store) :
              ( /\ store[i].sched = store[j].sched
                /\ store[i].time = store[j].time
                /\ store[i].day = store[j].day )
              => ~(store[i].status = "missed" /\ store[j].status = "taken") )
    /\ [][ /\ Len(store') >= Len(store)
           /\ \A i \in 1..Len(store) : store'[i] = store[i] ]_vars

\* The part of C39 about stored records alone.
C39_StoredRecordsKept ==
    [][ /\ Len(store') >= Len(store)
        /\ \A i \in 1..Len(store) : store'[i] = store[i] ]_vars

\* C40 (as claimed): neither process_sensor_data nor
\* check_missed_medications creates a record for a schedule whose range
\* start_date..end_date does not contain the current day.
C40_NoRecordOutsideValidity ==
    [][ \A i \in (Len(store) + 1)..Len(store') :
            \A k \in 1..Len(Schedules) :
                Schedules[k].id = store'[i].sched =>
                    /\ Schedules[k].start_date <= now.day
                    /\ now.day <= Schedules[k].end_date ]_vars

=============================================================================
